---- MODULE Spec2Model ----
(***************************************************************************)
(* A model of the ORE round analyzer scripts:                              *)
(*   - the account codec of read-round.js and ev-picks.js (le64,           *)
(*     decodeBoard, decodeRound) over byte buffers that are views into     *)
(*     shared storage, as Node's Buffer/subarray/DataView are;             *)
(*   - winningSquareFromSlotHash of read-round.js;                         *)
(*   - evForSquare of ev-picks.js over arbitrary-precision integers;       *)
(*   - dirichletTimeDecayedPriors of the smart-picks script.               *)
(* Each component has its own specification over the module's variables.   *)
(***************************************************************************)
EXTENDS Integers, Sequences, FiniteSets, TLC

VARIABLES
    heap,      \* storage id -> sequence of bytes (ArrayBuffers)
    inputs,    \* the account buffers handed to the decoders: views into heap
    last,      \* the most recent decode call: function, argument, bytes, result
    held,      \* an earlier decode call whose result the caller still holds
    writes,    \* number of writes made to the input buffers so far
    ev,        \* the most recent evForSquare call: arguments and outcome
    post,      \* the most recent dirichletTimeDecayedPriors call
    ranked,    \* the most recent ranking: its input values and the list returned
    an,        \* a WinProbabilityAnalyzer object and the winners.json it loads
    walk       \* the --recent walk of read-round.js: position and results

vars == <<heap, inputs, last, held, writes, ev, post, ranked, an, walk>>

\* The variables of each component, left alone by the others.
codecVars == <<heap, inputs, last, held, writes>>
laterVars == <<ranked, an, walk>>

(***************************************************************************)
(* Bytes, buffers and views                                                *)
(***************************************************************************)
Byte == 0..255

\* Faulty variant: the loops over the squares run one entry too far.
SquareCount_OffByOne == 25 + 1

\* Number of squares of a round (the loops of decodeRound run to 25).
SquareCount == 25

\* A Buffer / Uint8Array: a window of len bytes at offset off of storage store.
\* store = 0 stands for a null or undefined argument.
View(s, o, n) == [store |-> s, off |-> o, len |-> n]
NullView == View(0, 0, 0)
IsNull(buf) == buf.store = 0

\* buf[i]
ByteAt(buf, i) == heap[buf.store][buf.off + i + 1]

\* The bytes a view shows, in order, in heap h.
BytesIn(h, buf) ==
    IF IsNull(buf) THEN << >> ELSE [i \in 1..buf.len |-> h[buf.store][buf.off + i]]
Bytes(buf) == BytesIn(heap, buf)

Min(a, b) == IF a < b THEN a ELSE b
Max(a, b) == IF a > b THEN a ELSE b

\* TypedArray.prototype.subarray(begin, end): clamps to the view, shares storage.
subarray(buf, begin, end) ==
    LET b == Min(begin, buf.len)
        e == Min(end, buf.len)
    IN View(buf.store, buf.off + b, Max(e - b, 0))

\* Outcomes of a call: a returned value or a thrown error.
Ok(v) == [status |-> "ok", value |-> v]
Throw(n, m) == [status |-> "throw", name |-> n, message |-> m]
IsOk(r) == r.status = "ok"

(***************************************************************************)
(* read-round.js / ev-picks.js: le64                                       *)
(*   new DataView(buf.buffer, buf.byteOffset, buf.byteLength)              *)
(*       .getBigUint64(offset, true)                                       *)
(* A u64 is kept as its 8 base-256 digits, least significant first, so     *)
(* digit j has weight 256^(j-1).  A step also reports hi, one past the     *)
(* highest storage index it read (0 when it read nothing).                 *)
(***************************************************************************)
Step(r, h) == [res |-> r, hi |-> h]

\* Faulty variant: the byte order is taken big-endian.
le64_BigEndian(buf, offset) ==
    IF offset + 8 > buf.len
    THEN Step(Throw("RangeError", "Offset is outside the bounds of the DataView"), 0)
    ELSE Step(Ok([j \in 1..8 |-> ByteAt(buf, offset + 8 - j)]), buf.off + offset + 8)

\* Faulty variant: the DataView is built on the whole storage, dropping byteOffset
\* and byteLength.
le64_NoByteOffset(buf, offset) ==
    IF offset + 8 > Len(heap[buf.store])
    THEN Step(Throw("RangeError", "Offset is outside the bounds of the DataView"), 0)
    ELSE Step(Ok([j \in 1..8 |-> heap[buf.store][offset + j]]), offset + 8)

le64(buf, offset) ==
    IF offset + 8 > buf.len
    THEN Step(Throw("RangeError", "Offset is outside the bounds of the DataView"), 0)
    ELSE Step(Ok([j \in 1..8 |-> ByteAt(buf, offset + j - 1)]), buf.off + offset + 8)

\* new PublicKey(bytes) of @solana/web3.js: keeps a copy of the bytes as a
\* number; more than 32 bytes is rejected.
PublicKey(buf) ==
    IF buf.len > 32
    THEN Step(Throw("Error", "Invalid public key input"), 0)
    ELSE Step(Ok(Bytes(buf)), IF buf.len = 0 THEN 0 ELSE buf.off + buf.len)

\* A subarray is a view: nothing is read when it is taken.
Slice(buf) == Step(Ok(buf), 0)

\* The first thrown error of a sequence of steps, in evaluation order
\* (0 when none throws).
FirstThrow(steps) ==
    LET bad == {i \in 1..Len(steps) : ~IsOk(steps[i].res)}
    IN IF bad = {} THEN 0 ELSE CHOOSE i \in bad : \A j \in bad : i <= j

\* One past the highest storage index read by the first n steps.
MaxHi(steps, n) ==
    LET his == {steps[i].hi : i \in 1..n}
    IN IF his = {} THEN 0 ELSE CHOOSE h \in his : \A g \in his : g <= h

(***************************************************************************)
(* decodeBoard                                                             *)
(***************************************************************************)
BoardSteps(data) == << le64(data, 0), le64(data, 8), le64(data, 16) >>

BoardOutcome(data) ==
    LET steps == BoardSteps(data)
        t == FirstThrow(steps)
    IN IF t > 0
       THEN [res |-> steps[t].res, hi |-> MaxHi(steps, t)]
       ELSE [res |-> Ok([round_id |-> steps[1].res.value,
                         start_slot |-> steps[2].res.value,
                         end_slot |-> steps[3].res.value]),
             hi |-> MaxHi(steps, 3)]

\* read-round.js
decodeBoard(accData) ==
    IF IsNull(accData) \/ accData.len < 8 + 24
    THEN [res |-> Throw("Error", "Board data too short"), hi |-> 0]
    ELSE BoardOutcome(subarray(accData, 8, accData.len))

\* ev-picks.js: no length test; a null argument has no subarray method.
evDecodeBoard(accData) ==
    IF IsNull(accData)
    THEN [res |-> Throw("TypeError", "Cannot read properties of null"), hi |-> 0]
    ELSE BoardOutcome(subarray(accData, 8, accData.len))

(***************************************************************************)
(* decodeRound: the fields are read in order at the running offset o.      *)
(***************************************************************************)
RoundSteps(data) ==
    LET oId == 0
        oDeployed == oId + 8
        oSlotHash == oDeployed + 8 * SquareCount
        oCount == oSlotHash + 32
        oExpiresAt == oCount + 8 * SquareCount
        oMotherlode == oExpiresAt + 8
        oRentPayer == oMotherlode + 8
        oTopMiner == oRentPayer + 32
        oTopMinerReward == oTopMiner + 32
        oTotalDeployed == oTopMinerReward + 8
        oTotalVaulted == oTotalDeployed + 8
        oTotalWinnings == oTotalVaulted + 8
    IN << le64(data, oId) >>
       \o [i \in 1..SquareCount |-> le64(data, oDeployed + 8 * (i - 1))]
       \o << Slice(subarray(data, oSlotHash, oSlotHash + 32)) >>
       \o [i \in 1..SquareCount |-> le64(data, oCount + 8 * (i - 1))]
       \o << le64(data, oExpiresAt),
             le64(data, oMotherlode),
             PublicKey(subarray(data, oRentPayer, oRentPayer + 32)),
             PublicKey(subarray(data, oTopMiner, oTopMiner + 32)),
             le64(data, oTopMinerReward),
             le64(data, oTotalDeployed),
             le64(data, oTotalVaulted),
             le64(data, oTotalWinnings) >>

\* Positions of the steps of RoundSteps.
StepDeployed(i) == 1 + i
StepSlotHash == 2 + SquareCount
StepCount(i) == 2 + SquareCount + i
StepTail(k) == 2 + 2 * SquareCount + k

\* The values of the steps once all have succeeded (slot_hash still a view).
RoundLocals(steps) ==
    [id |-> steps[1].res.value,
     deployed |-> [i \in 1..SquareCount |-> steps[StepDeployed(i)].res.value],
     slot_hash |-> steps[StepSlotHash].res.value,
     count |-> [i \in 1..SquareCount |-> steps[StepCount(i)].res.value],
     expires_at |-> steps[StepTail(1)].res.value,
     motherlode |-> steps[StepTail(2)].res.value,
     rent_payer |-> steps[StepTail(3)].res.value,
     top_miner |-> steps[StepTail(4)].res.value,
     top_miner_reward |-> steps[StepTail(5)].res.value,
     total_deployed |-> steps[StepTail(6)].res.value,
     total_vaulted |-> steps[StepTail(7)].res.value,
     total_winnings |-> steps[StepTail(8)].res.value]

\* Faulty variant: the slot hash is returned as the subarray itself.
BufferFrom_View(buf, fresh) ==
    [view |-> buf, store |-> << >>, hi |-> 0]

\* Buffer.from(buf): a new buffer in storage id fresh holding a copy of the
\* bytes of buf.
BufferFrom(buf, fresh) ==
    [view |-> View(fresh, 0, buf.len), store |-> Bytes(buf),
     hi |-> IF buf.len = 0 THEN 0 ELSE buf.off + buf.len]

\* read-round.js.  Returns the outcome, the extent read and the storage
\* allocated for the returned slot_hash (none on a throw).
decodeRound(accData, fresh) ==
    IF IsNull(accData) \/ accData.len < 8
    THEN [res |-> Throw("Error", "Round data too short"), hi |-> 0, alloc |-> << >>]
    ELSE LET steps == RoundSteps(subarray(accData, 8, accData.len))
             t == FirstThrow(steps)
         IN IF t > 0
            THEN [res |-> steps[t].res, hi |-> MaxHi(steps, t), alloc |-> << >>]
            ELSE LET loc == RoundLocals(steps)
                     copy == BufferFrom(loc.slot_hash, fresh)
                 IN [res |-> Ok([loc EXCEPT !.slot_hash = copy.view]),
                     hi |-> Max(MaxHi(steps, Len(steps)), copy.hi),
                     alloc |-> copy.store]

\* ev-picks.js: no length test, and only four fields are returned.
evDecodeRound(accData) ==
    IF IsNull(accData)
    THEN [res |-> Throw("TypeError", "Cannot read properties of null"), hi |-> 0]
    ELSE LET steps == RoundSteps(subarray(accData, 8, accData.len))
             t == FirstThrow(steps)
         IN IF t > 0
            THEN [res |-> steps[t].res, hi |-> MaxHi(steps, t)]
            ELSE LET loc == RoundLocals(steps)
                 IN [res |-> Ok([id |-> loc.id, deployed |-> loc.deployed,
                                 count |-> loc.count,
                                 total_deployed |-> loc.total_deployed]),
                     hi |-> MaxHi(steps, Len(steps))]

(***************************************************************************)
(* The codec as a state machine: two account buffers with the same initial *)
(* bytes sit at different offsets of different storages; the caller        *)
(* decodes them, keeps an earlier result, and overwrites input bytes.      *)
(***************************************************************************)
\* Longest run of writes to the inputs.
MaxWrites == 1

\* Lengths of the account data; -1 stands for a missing (null) account.
Lens == {-1, 0, 7, 8, 31, 32, 498, 559, 560, 568}

\* Lengths used where the caller goes on to overwrite the buffers.
SnapshotLens == {32, 560}

Fills == {"zero", "ff", "ramp"}

FillByte(fill, o) ==
    CASE fill = "zero" -> 0
      [] fill = "ff" -> 255
      [] OTHER -> (7 * o + 3) % 256

\* Bytes before and after the second buffer in its storage.
PoolOffset == 16
PoolByte == 90

InputStores == {1, 2}
ResultStores == {3, 4, 5}

WriteOffsets == {8, 216}
WriteBytes == {1}

NoEv == [status |-> "none"]
NoPost == [status |-> "none"]
NoRank == [status |-> "none"]
NoAnalyzer == [status |-> "none"]
NoWalk == [status |-> "none"]

NoCall == [fn |-> "none", arg |-> 0, isNull |-> FALSE, bytes |-> << >>,
           res |-> Ok(0), extent |-> 0, hash |-> << >>]

\* Result storages a kept call record refers to.
Refs(call) ==
    IF call.fn = "decodeRound" /\ IsOk(call.res)
    THEN {call.res.value.slot_hash.store}
    ELSE {}

\* The bytes the returned slot_hash shows in heap h (none when the call
\* returned no slot_hash).
HashIn(h, call) ==
    IF call.fn = "decodeRound" /\ IsOk(call.res)
    THEN BytesIn(h, call.res.value.slot_hash)
    ELSE << >>

FreshId == CHOOSE i \in ResultStores : i \notin (Refs(last) \cup Refs(held))

\* Storage after a call that allocated alloc at id fresh: result storages no
\* kept record refers to are released.
HeapAfter(fresh, alloc, keep) ==
    [i \in DOMAIN heap |->
        IF i = fresh THEN alloc
        ELSE IF i \in ResultStores /\ i \notin keep THEN << >>
        ELSE heap[i]]

InitWith(lens) ==
    \E len \in lens, fill \in Fills :
        LET n == IF len < 0 THEN 0 ELSE len
            data == [i \in 1..n |-> FillByte(fill, i - 1)]
            pad == [i \in 1..PoolOffset |-> PoolByte]
        IN /\ heap = << data, pad \o data \o pad, << >>, << >>, << >> >>
           /\ inputs = IF len < 0 THEN << NullView, NullView >>
                       ELSE << View(1, 0, n), View(2, PoolOffset, n) >>
           /\ last = NoCall
           /\ held = NoCall
           /\ writes = 0
           /\ ev = NoEv
           /\ post = NoPost
           /\ ranked = NoRank
           /\ an = NoAnalyzer
           /\ walk = NoWalk

CodecInit == InitWith(Lens)

SnapshotInit == InitWith(SnapshotLens)

\* What is remembered of a call: the function, the argument and its bytes at
\* the call, the outcome, how far into the argument the call read, and the
\* bytes the returned slot_hash showed at the return (heap h).
Record(fn, w, out, h) ==
    LET call == [fn |-> fn, arg |-> w, isNull |-> IsNull(inputs[w]),
                 bytes |-> Bytes(inputs[w]), res |-> out.res,
                 extent |-> Max(out.hi - inputs[w].off, 0), hash |-> << >>]
    IN [call EXCEPT !.hash = HashIn(h, call)]

CallDecodeBoard(w) ==
    LET out == decodeBoard(inputs[w]) IN
    /\ heap' = HeapAfter(0, << >>, Refs(held))
    /\ last' = Record("decodeBoard", w, out, heap')
    /\ UNCHANGED <<inputs, held, writes, ev, post, laterVars>>

CallEvDecodeBoard(w) ==
    LET out == evDecodeBoard(inputs[w]) IN
    /\ heap' = HeapAfter(0, << >>, Refs(held))
    /\ last' = Record("evDecodeBoard", w, out, heap')
    /\ UNCHANGED <<inputs, held, writes, ev, post, laterVars>>

CallDecodeRound(w) ==
    LET fresh == FreshId
        out == decodeRound(inputs[w], fresh) IN
    /\ heap' = HeapAfter(fresh, out.alloc, Refs(held))
    /\ last' = Record("decodeRound", w, out, heap')
    /\ UNCHANGED <<inputs, held, writes, ev, post, laterVars>>

CallEvDecodeRound(w) ==
    LET out == evDecodeRound(inputs[w]) IN
    /\ heap' = HeapAfter(0, << >>, Refs(held))
    /\ last' = Record("evDecodeRound", w, out, heap')
    /\ UNCHANGED <<inputs, held, writes, ev, post, laterVars>>

\* The caller keeps the latest result of a read-round.js decoder and drops
\* the one kept before.
Hold ==
    /\ last.fn \in {"decodeBoard", "decodeRound"}
    /\ held' = last
    /\ heap' = HeapAfter(0, << >>, Refs(last))
    /\ UNCHANGED <<inputs, last, writes, ev, post, laterVars>>

\* The caller overwrites a byte of an input buffer.
WriteInput(w, o, b) ==
    /\ writes < MaxWrites
    /\ ~IsNull(inputs[w])
    /\ o < inputs[w].len
    /\ ByteAt(inputs[w], o) # b
    /\ heap' = [heap EXCEPT ![inputs[w].store][inputs[w].off + o + 1] = b]
    /\ writes' = writes + 1
    /\ UNCHANGED <<inputs, last, held, ev, post, laterVars>>

Calls ==
    \/ \E w \in 1..2 : CallDecodeBoard(w)
    \/ \E w \in 1..2 : CallEvDecodeBoard(w)
    \/ \E w \in 1..2 : CallDecodeRound(w)
    \/ \E w \in 1..2 : CallEvDecodeRound(w)

CodecNext == Calls

SnapshotNext ==
    \/ Calls
    \/ Hold
    \/ \E w \in 1..2, o \in WriteOffsets, b \in WriteBytes : WriteInput(w, o, b)

\* Decoding buffers of every length.
SpecCodec == CodecInit /\ [][CodecNext]_vars

\* Decoding, keeping results and overwriting the inputs.
SpecSnapshot == SnapshotInit /\ [][SnapshotNext]_vars

(***************************************************************************)
(* read-round.js: winningSquareFromSlotHash                                *)
(***************************************************************************)
\* Faulty variant: the loop answers after looking at the first byte only.
isAll_FirstByteOnly(buf, value) ==
    buf.len = 0 \/ ByteAt(buf, 0) = value

isAll(buf, value) == \A i \in 0..(buf.len - 1) : ByteAt(buf, i) = value

\* a ^ b on bytes, bit by bit.
RECURSIVE XorByte(_, _)
XorByte(a, b) ==
    IF a = 0 /\ b = 0 THEN 0
    ELSE (((a % 2) + (b % 2)) % 2) + 2 * XorByte(a \div 2, b \div 2)

\* a ^ b on 64-bit BigInts: digit by digit.
xor64(a, b) == [j \in 1..8 |-> XorByte(a[j], b[j])]

\* Number(r % m) for a 64-bit BigInt r given by its digits and a small m:
\* the digits are folded from the most significant one down.
RECURSIVE ModSmall(_, _, _)
ModSmall(r, n, m) ==
    IF n = 0 THEN 0
    ELSE (ModSmall([j \in 1..(n - 1) |-> r[j + 1]], n - 1, m) * 256 + r[1]) % m

winningSquareFromSlotHash(slotHashBuf) ==
    IF IsNull(slotHashBuf) \/ slotHashBuf.len # 32 THEN [status |-> "unavailable"]
    ELSE IF isAll(slotHashBuf, 0) THEN [status |-> "unavailable"]
    ELSE IF isAll(slotHashBuf, 255) THEN [status |-> "refund"]
    ELSE LET r1 == le64(slotHashBuf, 0).res.value
             r2 == le64(slotHashBuf, 8).res.value
             r3 == le64(slotHashBuf, 16).res.value
             r4 == le64(slotHashBuf, 24).res.value
             r == xor64(xor64(xor64(r1, r2), r3), r4)
             idx == ModSmall(r, 8, 25)
         IN [status |-> "ok", index |-> idx]

\* Slot hashes: every byte the same; one byte set apart from the rest; and
\* a run of distinct bytes.  Lengths other than 32 are refused by the code.
HashLens == {0, 31, 32, 33}
HashConstBytes == {0, 1, 255}
HashOddBytes == {0, 1, 25, 254, 255}

HashPatterns ==
    [kind : {"const"}, base : HashConstBytes, pos : {0}, odd : {0}, len : HashLens]
    \cup [kind : {"one"}, base : {0, 255}, pos : 0..31, odd : HashOddBytes, len : {32}]
    \cup [kind : {"ramp"}, base : {0}, pos : {0}, odd : {0}, len : {32}]

HashBytes(pt) ==
    [i \in 1..pt.len |->
        CASE pt.kind = "const" -> pt.base
          [] pt.kind = "one" -> IF i - 1 = pt.pos THEN pt.odd ELSE pt.base
          [] OTHER -> FillByte("ramp", i - 1)]

HashInit ==
    \E pt \in HashPatterns :
        LET pad == [i \in 1..PoolOffset |-> PoolByte]
        IN /\ heap = << pad \o HashBytes(pt) \o pad, << >>, << >>, << >>, << >> >>
           /\ inputs = << View(1, PoolOffset, pt.len), NullView >>
           /\ last = NoCall
           /\ held = NoCall
           /\ writes = 0
           /\ ev = NoEv
           /\ post = NoPost
           /\ ranked = NoRank
           /\ an = NoAnalyzer
           /\ walk = NoWalk

CallWinningSquare(w) ==
    /\ last.fn = "none"
    /\ last' = [fn |-> "winningSquareFromSlotHash", arg |-> w,
                isNull |-> IsNull(inputs[w]), bytes |-> Bytes(inputs[w]),
                res |-> Ok(winningSquareFromSlotHash(inputs[w])),
                extent |-> 0, hash |-> << >>]
    /\ UNCHANGED <<heap, inputs, held, writes, ev, post, laterVars>>

HashNext == \E w \in 1..2 : CallWinningSquare(w)

\* The winning square of slot hashes of every pattern.
SpecHash == HashInit /\ [][HashNext]_vars

(***************************************************************************)
(* BigInt: arbitrary-precision integers, as a sign and the base-256 digits *)
(* of the magnitude, least significant first, without leading zeros.       *)
(***************************************************************************)
Digit(a, i) == IF i <= Len(a) THEN a[i] ELSE 0

RECURSIVE Norm(_)
Norm(a) ==
    IF a = << >> THEN << >>
    ELSE IF a[Len(a)] = 0 THEN Norm(SubSeq(a, 1, Len(a) - 1))
    ELSE a

\* The digits of a small natural number.
RECURSIVE FromNat(_)
FromNat(n) == IF n = 0 THEN << >> ELSE << n % 256 >> \o FromNat(n \div 256)

\* -1, 0 or 1 as a < b, a = b or a > b, looking at digits i and below.
RECURSIVE MagCmpFrom(_, _, _)
MagCmpFrom(a, b, i) ==
    IF i = 0 THEN 0
    ELSE IF Digit(a, i) < Digit(b, i) THEN -1
    ELSE IF Digit(a, i) > Digit(b, i) THEN 1
    ELSE MagCmpFrom(a, b, i - 1)

MagCmp(a, b) == MagCmpFrom(a, b, Max(Len(a), Len(b)))
MagLeq(a, b) == MagCmp(a, b) <= 0
MagLess(a, b) == MagCmp(a, b) < 0

RECURSIVE AddFrom(_, _, _, _)
AddFrom(a, b, i, carry) ==
    IF i > Max(Len(a), Len(b))
    THEN IF carry = 0 THEN << >> ELSE << carry >>
    ELSE LET t == Digit(a, i) + Digit(b, i) + carry
         IN << t % 256 >> \o AddFrom(a, b, i + 1, t \div 256)

MagAdd(a, b) == AddFrom(a, b, 1, 0)

\* a - b for a >= b.
RECURSIVE SubFrom(_, _, _, _)
SubFrom(a, b, i, borrow) ==
    IF i > Len(a) THEN << >>
    ELSE LET t == Digit(a, i) - Digit(b, i) - borrow
         IN IF t < 0
            THEN << t + 256 >> \o SubFrom(a, b, i + 1, 1)
            ELSE << t >> \o SubFrom(a, b, i + 1, 0)

MagSub(a, b) == Norm(SubFrom(a, b, 1, 0))

\* a * k for a digit k.
RECURSIVE MulDigitFrom(_, _, _, _)
MulDigitFrom(a, k, i, carry) ==
    IF i > Len(a)
    THEN IF carry = 0 THEN << >> ELSE << carry >>
    ELSE LET t == a[i] * k + carry
         IN << t % 256 >> \o MulDigitFrom(a, k, i + 1, t \div 256)

MagMulDigit(a, k) == Norm(MulDigitFrom(a, k, 1, 0))

RECURSIVE MagMulFrom(_, _, _)
MagMulFrom(a, b, i) ==
    IF i > Len(b) THEN << >>
    ELSE MagAdd(MagMulDigit(a, b[i]), << 0 >> \o MagMulFrom(a, b, i + 1))

MagMul(a, b) == Norm(MagMulFrom(a, b, 1))

\* The largest digit q in lo..hi with b * q <= r (b * lo <= r is given).
RECURSIVE QuotDigit(_, _, _, _)
QuotDigit(r, b, lo, hi) ==
    IF lo = hi THEN lo
    ELSE LET mid == (lo + hi + 1) \div 2
         IN IF MagLeq(MagMulDigit(b, mid), r)
            THEN QuotDigit(r, b, mid, hi)
            ELSE QuotDigit(r, b, lo, mid - 1)

\* One step of long division: the quotient digits and remainder up of the
\* higher digits are extended by the next lower digit d of the dividend.
DivStep(up, d, b) ==
    LET rem == Norm(<< d >> \o up.r)
        qd == QuotDigit(rem, b, 0, 255)
    IN [q |-> << qd >> \o up.q, r |-> MagSub(rem, MagMulDigit(b, qd))]

\* Long division of a by b # 0, from digit i of a upwards: quotient digits
\* and the remainder so far.  The higher digits are divided first.
RECURSIVE DivModFrom(_, _, _)
DivModFrom(a, b, i) ==
    IF i > Len(a) THEN [q |-> << >>, r |-> << >>]
    ELSE CHOOSE s \in {DivStep(up, a[i], b) : up \in {DivModFrom(a, b, i + 1)}} : TRUE

MagDivMod(a, b) ==
    LET dm == DivModFrom(a, b, 1) IN [q |-> Norm(dm.q), r |-> dm.r]

\* Signed values.
Big(neg, mag) == [neg |-> neg /\ mag # << >>, mag |-> mag]
BigNat(n) == Big(FALSE, FromNat(n))
BigNeg(x) == Big(~x.neg, x.mag)
BigIsZero(x) == x.mag = << >>

\* x + y
BigAdd(x, y) ==
    IF x.neg = y.neg THEN Big(x.neg, MagAdd(x.mag, y.mag))
    ELSE IF MagLeq(y.mag, x.mag) THEN Big(x.neg, MagSub(x.mag, y.mag))
    ELSE Big(y.neg, MagSub(y.mag, x.mag))

\* x - y
BigSub(x, y) == BigAdd(x, BigNeg(y))

\* Faulty variant: the product is kept in 64 bits.
BigMul_Wrap64(x, y) ==
    LET m == MagMul(x.mag, y.mag)
    IN Big(x.neg # y.neg, Norm(SubSeq(m, 1, Min(Len(m), 8))))

\* x * y
BigMul(x, y) == Big(x.neg # y.neg, MagMul(x.mag, y.mag))

\* x / y for y # 0: the quotient is rounded toward zero.
BigDiv(x, y) == Big(x.neg # y.neg, MagDivMod(x.mag, y.mag).q)

(***************************************************************************)
(* ev-picks.js: evForSquare                                                *)
(***************************************************************************)
evForSquare(deployed, total, aLamports) ==
    LET N == BigNat(25)
        a == aLamports
        totalNew == BigAdd(total, a)
        depNew == BigAdd(deployed, a)
        base == BigDiv(BigMul(a, BigNat(99)), BigNat(100))
        pot == BigSub(totalNew, depNew)
        shareNumer == BigMul(BigMul(pot, a), BigNat(891))
        shareDenom == BigMul(depNew, BigNat(1000))
    IN IF BigIsZero(shareDenom)
       THEN Throw("RangeError", "Division by zero")
       ELSE LET share == BigDiv(shareNumer, shareDenom)
                S_win == BigAdd(base, share)
                EV == BigAdd(BigNeg(a), BigDiv(S_win, N))
            IN Ok([S_win |-> S_win, EV |-> EV])

\* Amounts in lamports: 0, 1, 100, 0.1 SOL, 1 SOL, 5000 SOL, 2^63, 2^64 - 1.
Lamports ==
    { << >>, << 1 >>, << 100 >>, << 0, 225, 245, 5 >>, << 0, 202, 154, 59 >>,
      << 0, 80, 57, 39, 140, 4 >>, << 0, 0, 0, 0, 0, 0, 0, 128 >>,
      << 255, 255, 255, 255, 255, 255, 255, 255 >> }

\* Deployed amounts and totals as decoded (u64), and a negative amount as a
\* caller may pass it.
DeployedValues == {Big(FALSE, m) : m \in Lamports} \cup {Big(TRUE, << 1 >>)}
TotalValues == {Big(FALSE, m) : m \in Lamports}
\* Stakes: the same amounts, and the negative stakes -1 and -100.
StakeValues ==
    {Big(FALSE, m) : m \in Lamports} \cup {Big(TRUE, << 1 >>), Big(TRUE, << 100 >>)}

EvInit ==
    /\ heap = << >>
    /\ inputs = << >>
    /\ last = NoCall
    /\ held = NoCall
    /\ writes = 0
    /\ ev = NoEv
    /\ post = NoPost
    /\ ranked = NoRank
    /\ an = NoAnalyzer
    /\ walk = NoWalk

CallEvForSquare(d, t, a) ==
    /\ ev.status = "none"
    /\ ev' = [status |-> "called", deployed |-> d, total |-> t, aLamports |-> a,
              res |-> evForSquare(d, t, a)]
    /\ UNCHANGED <<codecVars, post, laterVars>>

EvNext ==
    \E d \in DeployedValues, t \in TotalValues, a \in StakeValues : CallEvForSquare(d, t, a)

\* evForSquare on amounts of every size and sign.
SpecEV == EvInit /\ [][EvNext]_vars

(***************************************************************************)
(* Numbers of the estimator.  A JavaScript number is modelled as an exact  *)
(* fraction n/d in lowest terms (d > 0), NaN, or +-Infinity (n = 1 or -1); *)
(* an array slot may also be a hole.  Rounding of doubles is not modelled. *)
(***************************************************************************)
RECURSIVE GCD(_, _)
GCD(a, b) == IF b = 0 THEN a ELSE GCD(b, a % b)

Abs(n) == IF n < 0 THEN -n ELSE n
Sign(n) == IF n < 0 THEN -1 ELSE IF n > 0 THEN 1 ELSE 0

NaN == [k |-> "nan", n |-> 0, d |-> 0]
Hole == [k |-> "hole", n |-> 0, d |-> 0]
Inf(sgn) == [k |-> "inf", n |-> sgn, d |-> 0]
Rat(n, d) ==
    LET g == GCD(Abs(n), d) IN [k |-> "num", n |-> n \div g, d |-> d \div g]
Zero == Rat(0, 1)
One == Rat(1, 1)

\* x + y
Add(x, y) ==
    IF x.k = "num" /\ y.k = "num"
    THEN LET g == GCD(x.d, y.d)
         IN Rat(x.n * (y.d \div g) + y.n * (x.d \div g), (x.d \div g) * y.d)
    ELSE IF x.k \notin {"num", "inf"} \/ y.k \notin {"num", "inf"} THEN NaN
    ELSE IF x.k = "inf" /\ y.k = "inf" THEN (IF x.n = y.n THEN x ELSE NaN)
    ELSE IF x.k = "inf" THEN x ELSE y

\* x * y
Mul(x, y) ==
    IF x.k = "num" /\ y.k = "num"
    THEN LET g1 == GCD(Abs(x.n), y.d)
             g2 == GCD(Abs(y.n), x.d)
         IN Rat((x.n \div g1) * (y.n \div g2), (x.d \div g2) * (y.d \div g1))
    ELSE IF x.k \notin {"num", "inf"} \/ y.k \notin {"num", "inf"} THEN NaN
    ELSE IF x.n = 0 \/ y.n = 0 THEN NaN
    ELSE Inf(Sign(x.n) * Sign(y.n))

\* x / y
Div(x, y) ==
    IF x.k = "num" /\ y.k = "num"
    THEN IF y.n = 0
         THEN (IF x.n = 0 THEN NaN ELSE Inf(Sign(x.n)))
         ELSE Mul(x, Rat(Sign(y.n) * y.d, Abs(y.n)))
    ELSE IF x.k \notin {"num", "inf"} \/ y.k \notin {"num", "inf"} THEN NaN
    ELSE IF x.k = "inf" /\ y.k = "inf" THEN NaN
    ELSE IF x.k = "inf" THEN Inf(x.n * (IF y.n < 0 THEN -1 ELSE 1))
    ELSE Zero

\* x > 0
Gt0(x) == x.k \in {"num", "inf"} /\ x.n > 0

\* a/b < c/d for a, c >= 0 and b, d > 0, by comparing whole parts and then
\* the reciprocals of the remainders (no product is formed).
RECURSIVE LtFrac(_, _, _, _)
LtFrac(a, b, c, d) ==
    IF a \div b # c \div d THEN a \div b < c \div d
    ELSE IF c % d = 0 THEN FALSE
    ELSE IF a % b = 0 THEN TRUE
    ELSE LtFrac(d, c % d, b, a % b)

\* x < y for numbers that are not NaN or infinite
Lt(x, y) ==
    /\ x.k = "num" /\ y.k = "num"
    /\ IF x.n < 0 /\ y.n < 0 THEN LtFrac(-y.n, y.d, -x.n, x.d)
       ELSE IF x.n < 0 THEN TRUE
       ELSE IF y.n < 0 THEN FALSE
       ELSE LtFrac(x.n, x.d, y.n, y.d)

\* arr.reduce((a, b) => a + b, 0) over the first n slots: holes are skipped.
RECURSIVE SumTo(_, _)
SumTo(arr, n) ==
    IF n = 0 THEN Zero
    ELSE CHOOSE t \in {IF arr[n].k = "hole" THEN acc ELSE Add(acc, arr[n]) :
                          acc \in {SumTo(arr, n - 1)}} : TRUE

Sum(arr) == SumTo(arr, Len(arr))

(***************************************************************************)
(* Smart picks: dirichletTimeDecayedPriors                                 *)
(***************************************************************************)
\* An option that is given, and one that is left out.
Opt(v) == [set |-> TRUE, v |-> v]
Omitted == [set |-> FALSE, v |-> 0]
OmittedNumber == [set |-> FALSE, v |-> [k |-> "hole", n |-> 0, d |-> 0]]

\* A blockNumber: an integer, or a value Number.isInteger rejects.
Blk(v) == [isInt |-> TRUE, v |-> v]
NotInteger == [isInt |-> FALSE, v |-> 0]

\* [...winners].sort((a, b) => b.round - a.round): descending by round,
\* entries of the same round in their input order (the sort is stable).
SortDesc(winners) ==
    LET n == Len(winners)
        rank(i) == Cardinality({j \in 1..n :
                        \/ winners[j].round > winners[i].round
                        \/ (winners[j].round = winners[i].round /\ j < i)}) + 1
    IN [p \in 1..n |-> winners[CHOOSE i \in 1..n : rank(i) = p]]

\* Faulty variant: the whole array is kept.
SliceTo_Everything(arr, end) == arr

\* arr.slice(0, end)
SliceTo(arr, end) ==
    LET e == IF end < 0 THEN Max(Len(arr) + end, 0) ELSE Min(end, Len(arr))
    IN SubSeq(arr, 1, e)

\* 2^(-r/10) for r in 1..9, to three decimals.
TenthRoot(r) ==
    CASE r = 1 -> Rat(933, 1000) [] r = 2 -> Rat(871, 1000) [] r = 3 -> Rat(812, 1000)
      [] r = 4 -> Rat(758, 1000) [] r = 5 -> Rat(707, 1000) [] r = 6 -> Rat(660, 1000)
      [] r = 7 -> Rat(616, 1000) [] r = 8 -> Rat(574, 1000) [] OTHER -> Rat(536, 1000)

\* Math.pow(2, -i / halfLife) for i >= 0 and halfLife in {0, 1, 10}:
\* -0/0 is NaN, -i/0 is -Infinity; whole exponents are exact.
Pow2Neg(i, halfLife) ==
    IF halfLife = 0 THEN (IF i = 0 THEN NaN ELSE Zero)
    ELSE IF i % halfLife = 0 THEN Rat(1, 2^(i \div halfLife))
    ELSE Mul(Rat(1, 2^(i \div halfLife)), TenthRoot(i % halfLife))

\* counts[k] after the loop: the weights of the entries whose blockNumber is
\* the integer k, 0 <= k < N, added in window order.
RECURSIVE CountOf(_, _, _, _)
CountOf(sorted, weights, k, n) ==
    IF n = 0 THEN Zero
    ELSE LET b == sorted[n].blockNumber
             rest == CountOf(sorted, weights, k, n - 1)
         IN IF b.isInt /\ b.v = k THEN Add(rest, weights[n]) ELSE rest

\* probs[idx] *= factor: an index at or past the end extends the array
\* (leaving holes), a negative one only sets a property.
MulAt(probs, idx, factor) ==
    IF idx < 0 THEN probs
    ELSE IF idx < Len(probs)
    THEN [probs EXCEPT ![idx + 1] = IF @.k = "hole" THEN NaN ELSE Mul(@, factor)]
    ELSE probs \o [i \in 1..(idx - Len(probs)) |-> Hole] \o << NaN >>

\* Faulty variant: the prior is left out of the numerator.
PosteriorMean_NoPrior(counts, alpha, N) ==
    LET sumW == Sum(counts)
    IN [k \in 1..Len(counts) |-> Div(counts[k], Add(Mul(Rat(N, 1), alpha), sumW))]

\* Posterior mean p_k = (alpha + w_k) / (N * alpha + sum_w).
PosteriorMean(counts, alpha, N) ==
    LET sumW == Sum(counts)
    IN [k \in 1..Len(counts) |->
          Div(Add(alpha, counts[k]), Add(Mul(Rat(N, 1), alpha), sumW))]

\* Faulty variant: only the newest entry's square is penalised.
AntiStreak_NewestOnly(probs, sorted) ==
    IF Len(sorted) >= 1 /\ sorted[1].blockNumber.isInt
    THEN MulAt(probs, sorted[1].blockNumber.v, Rat(6, 10))
    ELSE probs

\* Anti-streak penalty: x0.6 for the newest entry's square, x0.8 for the one
\* before it.
AntiStreak(probs, sorted) ==
    LET p1 == IF Len(sorted) >= 1 /\ sorted[1].blockNumber.isInt
              THEN MulAt(probs, sorted[1].blockNumber.v, Rat(6, 10))
              ELSE probs
    IN IF Len(sorted) >= 2 /\ sorted[2].blockNumber.isInt
       THEN MulAt(p1, sorted[2].blockNumber.v, Rat(8, 10))
       ELSE p1

\* Faulty variant: the sum is divided by without the s > 0 test.
Renormalize_NoFallback(probs, N) ==
    LET s == Sum(probs)
    IN [i \in 1..Len(probs) |-> IF probs[i].k = "hole" THEN Hole ELSE Div(probs[i], s)]

\* probs.map((p) => (s > 0 ? p / s : 1 / N)): holes stay holes.
Renormalize(probs, N) ==
    LET s == Sum(probs)
    IN [i \in 1..Len(probs) |->
          IF probs[i].k = "hole" THEN Hole
          ELSE IF Gt0(s) THEN Div(probs[i], s) ELSE Rat(1, N)]

\* The locals of dirichletTimeDecayedPriors at its return.  N is the constant
\* 25: options.squareCount is never read.
PriorsLocals(winners, options) ==
    LET N == SquareCount
        alpha == IF options.alpha.set THEN options.alpha.v ELSE One
        halfLife == IF options.halfLife.set THEN options.halfLife.v ELSE 10
        maxRounds == IF options.maxRounds.set THEN options.maxRounds.v ELSE 30
        sorted == SliceTo(SortDesc(winners), maxRounds)
        weights == [i \in 1..Len(sorted) |-> Pow2Neg(i - 1, halfLife)]
        counts == [k \in 1..N |-> CountOf(sorted, weights, k - 1, Len(sorted))]
        mean == PosteriorMean(counts, alpha, N)
        penalised == AntiStreak(mean, sorted)
    IN [alpha |-> alpha, halfLife |-> halfLife, maxRounds |-> maxRounds,
        sorted |-> sorted, weights |-> weights, counts |-> counts,
        mean |-> mean, penalised |-> penalised,
        probs |-> Renormalize(penalised, N)]

dirichletTimeDecayedPriors(winners, options) == PriorsLocals(winners, options).probs

\* Histories: up to MaxHist records with rounds 1..MaxRound and squares in
\* and out of 0..24, in any order and with repeated rounds.
MaxHist == 3
MaxRound == 2
BlockValues == {Blk(0), Blk(1), Blk(25), Blk(27), NotInteger}
WinnerRecords == [round : 1..MaxRound, blockNumber : BlockValues]
Histories == UNION {[1..n -> WinnerRecords] : n \in 0..MaxHist}

AlphaOptions == {OmittedNumber, Opt(Zero), Opt(Rat(2, 1))}
HalfLifeOptions == {Omitted, Opt(1)}
MaxRoundsOptions == {Omitted, Opt(2)}
SquareCountOptions == {Omitted}
OptionSets ==
    [alpha : AlphaOptions, halfLife : HalfLifeOptions, maxRounds : MaxRoundsOptions,
     squareCount : SquareCountOptions]

PostInit ==
    /\ heap = << >>
    /\ inputs = << >>
    /\ last = NoCall
    /\ held = NoCall
    /\ writes = 0
    /\ ev = NoEv
    /\ post = NoPost
    /\ ranked = NoRank
    /\ an = NoAnalyzer
    /\ walk = NoWalk

CallPriors(winners, options) ==
    /\ post.status = "none"
    /\ \E locals \in {PriorsLocals(winners, options)} :
          post' = [status |-> "called", winners |-> winners, options |-> options,
                   locals |-> locals, probs |-> locals.probs]
    /\ UNCHANGED <<codecVars, ev, laterVars>>

PostNext == \E winners \in Histories, options \in OptionSets : CallPriors(winners, options)

\* The estimator on every history and option set within the bounds.
SpecPosterior == PostInit /\ [][PostNext]_vars

\* Short histories of in-range squares, with each option left out, given as
\* 0, and given as another value.
InRangeRecords == [round : 1..MaxRound, blockNumber : {Blk(0), Blk(1)}]
InRangeHistories == UNION {[1..n -> InRangeRecords] : n \in 0..MaxHist}
GivenOptions ==
    [alpha : {OmittedNumber, Opt(Zero), Opt(Rat(2, 1))},
     halfLife : {Omitted, Opt(0), Opt(1)},
     maxRounds : {Omitted, Opt(0), Opt(1)},
     squareCount : {Omitted, Opt(0), Opt(5)}]

OptionsNext ==
    \E winners \in InRangeHistories, options \in GivenOptions : CallPriors(winners, options)

SpecOptions == PostInit /\ [][OptionsNext]_vars

\* Histories whose newest record is a win on square 0, followed by up to
\* MaxOlder older records on squares 0..2, one per round.
MaxOlder == 3
NewestRound == MaxOlder + 2
OlderSquares == UNION {[1..n -> 0..2] : n \in 1..MaxOlder}
NewestFirst(older) ==
    << [round |-> NewestRound, blockNumber |-> Blk(0)] >> \o
    [i \in 1..Len(older) |-> [round |-> NewestRound - i, blockNumber |-> Blk(older[i])]]
DecayHistories == {NewestFirst(older) : older \in OlderSquares}
DecayOptions ==
    [alpha : {OmittedNumber, Opt(Rat(2, 1))}, halfLife : {Omitted, Opt(1)},
     maxRounds : {Omitted}, squareCount : {Omitted}]

DecayNext ==
    \E winners \in DecayHistories, options \in DecayOptions : CallPriors(winners, options)

SpecDecay == PostInit /\ [][DecayNext]_vars

(***************************************************************************)
(* Rankers: topN, getRecommendations, and the EV ordering of ev-picks.js   *)
(***************************************************************************)
\* arr.sort(compare), where before[i, j] says that compare puts arr[i] before
\* arr[j]; it returns 0 when neither goes first, and the sort is stable, so
\* such items keep their order.
StableSort(arr, before) ==
    LET n == Len(arr)
        place(i) == Cardinality({j \in 1..n :
                        \/ before[j, i]
                        \/ (~before[i, j] /\ j < i)}) + 1
    IN CHOOSE sorted \in {[p \in 1..n |-> arr[CHOOSE i \in 1..n : places[i] = p]] :
                            places \in {<< >> \o [i \in 1..n |-> place(i)]}} : TRUE

\* Faulty variant: ascending order.
HigherP_Ascending(a, b) == Lt(a.p, b.p)

\* b.p - a.p < 0
HigherP(a, b) == Lt(b.p, a.p)

\* topN(probs, n) of the smart-picks script.
topN(probs, n) ==
    LET arr == [i \in 1..Len(probs) |-> [index0 |-> i - 1, index1 |-> i, p |-> probs[i]]]
    IN Ok(SliceTo(StableSort(arr, [i, j \in 1..Len(arr) |-> HigherP(arr[i], arr[j])]), n))

\* b.probability - a.probability < 0
HigherProbability(a, b) == Lt(b.probability, a.probability)

\* getRecommendations(topN) on an analyzer with the given probabilities.
getRecommendations(probabilities, n) ==
    LET indexed == [i \in 1..Len(probabilities) |->
                      [blockNumber |-> i, probability |-> probabilities[i], index |-> i - 1]]
    IN Ok(SliceTo(StableSort(indexed, [i, j \in 1..Len(indexed) |-> HigherProbability(indexed[i], indexed[j])]), n))

\* Number(b.EV - a.EV) < 0: the difference of two different BigInts is at
\* least 1 in magnitude, so the conversion keeps its sign.
HigherEV(a, b) == BigSub(b.EV, a.EV).neg

\* Faulty variant: square i is given the deployed amount of square 24 - i.
EvResults_Mirrored(deployed, total_deployed, betLamports) ==
    [i \in 1..25 |->
        [idx0 |-> i - 1, idx1 |-> i,
         EV |-> evForSquare(deployed[26 - i], total_deployed, betLamports).value.EV]]

\* The loop of main: one entry per square, in square order.
EvResults(deployed, total_deployed, betLamports) ==
    [i \in 1..25 |->
        [idx0 |-> i - 1, idx1 |-> i,
         EV |-> evForSquare(deployed[i], total_deployed, betLamports).value.EV]]

\* Vectors of up to MaxVector values, and list lengths asked for.
MaxVector == 4
VectorValues == {Zero, Rat(1, 25), Rat(3, 25)}
Vectors == UNION {[1..n -> VectorValues] : n \in 0..MaxVector}
Wanted == 0..(MaxVector + 1)

\* Boards whose squares repeat three deployed amounts (0, 1 lamport, 0.1 SOL),
\* with totals of 0 and 5000 SOL, and stakes of 100 lamports and 0.1 SOL.
BoardAmounts == {<< >>, << 1 >>, << 0, 225, 245, 5 >>}
BoardOf(v) == [i \in 1..25 |-> Big(FALSE, v[((i - 1) % 3) + 1])]
Boards == {BoardOf(v) : v \in [1..3 -> BoardAmounts]}
BoardTotals == {<< >>, << 0, 80, 57, 39, 140, 4 >>}
BetAmounts == {<< 100 >>, << 0, 225, 245, 5 >>}

RankInit ==
    /\ heap = << >>
    /\ inputs = << >>
    /\ last = NoCall
    /\ held = NoCall
    /\ writes = 0
    /\ ev = NoEv
    /\ post = NoPost
    /\ ranked = NoRank
    /\ an = NoAnalyzer
    /\ walk = NoWalk

CallTopN(probs, n) ==
    /\ ranked.status = "none"
    /\ ranked' = [status |-> "called", fn |-> "topN", values |-> probs, n |-> n,
                  res |-> topN(probs, n)]
    /\ UNCHANGED <<codecVars, ev, post, an, walk>>

CallGetRecommendations(probabilities, n) ==
    /\ ranked.status = "none"
    /\ ranked' = [status |-> "called", fn |-> "getRecommendations",
                  values |-> probabilities, n |-> n,
                  res |-> getRecommendations(probabilities, n)]
    /\ UNCHANGED <<codecVars, ev, post, an, walk>>

\* main of ev-picks.js from the decoded round on: the loop, the sort, and the
\* three entries printed.
EvMain(deployed, total_deployed, betLamports) ==
    /\ ranked.status = "none"
    /\ \E results \in {<< >> \o EvResults(deployed, total_deployed, betLamports)} :
       \E sorted \in {StableSort(results, [i, j \in 1..Len(results) |-> HigherEV(results[i], results[j])])} :
          ranked' = [status |-> "called", fn |-> "evMain", deployed |-> deployed,
                     total_deployed |-> total_deployed, betLamports |-> betLamports,
                     results |-> results, sorted |-> sorted,
                     top |-> SubSeq(sorted, 1, 3)]
    /\ UNCHANGED <<codecVars, ev, post, an, walk>>

RankNext ==
    \/ \E probs \in Vectors, n \in Wanted : CallTopN(probs, n)
    \/ \E probabilities \in Vectors, n \in Wanted : CallGetRecommendations(probabilities, n)
    \/ \E deployed \in Boards, t \in BoardTotals, b \in BetAmounts :
          EvMain(deployed, Big(FALSE, t), Big(FALSE, b))

SpecRank == RankInit /\ [][RankNext]_vars

(***************************************************************************)
(* probability-analyzer.js: WinProbabilityAnalyzer                         *)
(* Winner records here are [round, blockNumber] with blockNumber 1..25.    *)
(***************************************************************************)
\* Faulty variant: the array itself is sorted.
SortedByRound_InPlace(winners) == [input |-> SortDesc(winners), sorted |-> SortDesc(winners)]

\* [...this.winners].sort((a, b) => b.round - a.round): the copy is sorted,
\* the array it was copied from is as it was.
SortedByRound(winners) == [input |-> winners, sorted |-> SortDesc(winners)]

\* recent15Frequency / recent25Frequency at blockIndex, 0 <= blockIndex < 25
Frequency(window, blockIndex) ==
    Cardinality({i \in 1..Len(window) : window[i].blockNumber - 1 = blockIndex})

\* The smallest index i of recent25Winners with blockNumber - 1 = blockIndex,
\* or -1.
MostRecentPosition(recent25Winners, blockIndex) ==
    LET at == {i \in 1..Len(recent25Winners) :
                  recent25Winners[i].blockNumber - 1 = blockIndex}
    IN IF at = {} THEN -1
       ELSE (CHOOSE i \in at : \A j \in at : i <= j) - 1

\* The value given to a square by the position of its most recent win and the
\* number of its wins in the newest 15 rounds.
PositionWeight(mostRecentPosition, count15) ==
    IF mostRecentPosition = 0 THEN Rat(1, 100)
    ELSE IF mostRecentPosition <= 2 THEN (IF count15 >= 2 THEN Rat(2, 100) ELSE Rat(5, 100))
    ELSE IF mostRecentPosition <= 5 THEN (IF count15 >= 2 THEN Rat(3, 100) ELSE Rat(15, 100))
    ELSE IF mostRecentPosition <= 10 THEN (IF count15 >= 2 THEN Rat(10, 100) ELSE Rat(35, 100))
    ELSE IF mostRecentPosition <= 15 THEN (IF count15 >= 2 THEN Rat(15, 100) ELSE Rat(50, 100))
    ELSE (IF count15 >= 2 THEN Rat(20, 100) ELSE Rat(70, 100))

\* this.probabilities after the loop over the 25 squares, before normalising.
BlockWeights(sortedWinners) ==
    LET recent15Winners == SliceTo(sortedWinners, 15)
        recent25Winners == SliceTo(sortedWinners, 25)
    IN [b \in 1..25 |->
          IF Frequency(recent25Winners, b - 1) = 0 THEN One
          ELSE PositionWeight(MostRecentPosition(recent25Winners, b - 1),
                              Frequency(recent15Winners, b - 1))]

\* Faulty variant: without history the array stays filled with baseWeight.
ComputeProbabilities_BaseWeightKept(winners) ==
    IF Len(winners) = 0 THEN [b \in 1..25 |-> One]
    ELSE CHOOSE probs \in
            {IF Gt0(Sum(weights)) THEN [b \in 1..25 |-> Div(weights[b], Sum(weights))]
             ELSE weights :
                weights \in {<< >> \o BlockWeights(SortedByRound(winners).sorted)}} : TRUE

\* The probabilities a calculation computes from this.winners.
ComputeProbabilities(winners) ==
    IF Len(winners) = 0 THEN [b \in 1..25 |-> Rat(1, 25)]
    ELSE CHOOSE probs \in
            {IF Gt0(Sum(weights)) THEN [b \in 1..25 |-> Div(weights[b], Sum(weights))]
             ELSE weights :
                weights \in {<< >> \o BlockWeights(SortedByRound(winners).sorted)}} : TRUE

\* JSON.stringify(this.winners.slice(0, 25).map(w => `${w.blockNumber}-${w.round}`))
CalculationHash(winners) ==
    [i \in 1..Min(25, Len(winners)) |-> << winners[i].blockNumber, winners[i].round >>]

\* getRecentWinnerRank(blockNumber): the ranks -1 .. -15 of the block among the
\* newest 15 winners, or null.
getRecentWinnerRank(winners, blockNumber) ==
    IF Len(winners) = 0 THEN [null |-> TRUE, ranks |-> << >>]
    ELSE CHOOSE result \in
            {LET Won(r) == sortedWinners[-r].blockNumber = blockNumber
                 ranks == SelectSeq([i \in 1..Min(15, Len(sortedWinners)) |-> -i], Won)
             IN IF Len(ranks) > 0 THEN [null |-> FALSE, ranks |-> ranks]
                ELSE [null |-> TRUE, ranks |-> << >>] :
                sortedWinners \in {SortedByRound(winners).sorted}} : TRUE

\* getBlockAnalysis(blockNumber), or null without history.
getBlockAnalysis(winners, blockNumber) ==
    IF Len(winners) = 0 THEN [null |-> TRUE]
    ELSE LET recent25Winners == SliceTo(SortedByRound(winners).sorted, 25)
             IsWin(i) == recent25Winners[i + 1].blockNumber = blockNumber
             winPositions == SelectSeq([i \in 1..Len(recent25Winners) |-> i - 1], IsWin)
             winCount == Len(winPositions)
             lastWinRound == IF winCount > 0 THEN winPositions[1] ELSE -1
         IN [null |-> FALSE, winCount |-> winCount, winPositions |-> winPositions,
             lastWinRound |-> lastWinRound, neverWon |-> winCount = 0,
             isRepeater |-> winCount > 1,
             recentRepeater |-> lastWinRound = 0 /\ winCount > 1,
             roundsSinceWin |-> IF lastWinRound >= 0 THEN lastWinRound ELSE 25]

\* winners.json as the analyzer finds it: unreadable, or a list of records.
\* The lists: none; one record (in and out of 1..25); five records in which a
\* block with two wins follows a block with one; and 26 and 27 records in
\* ascending round order, the longer one extending the shorter.
Unreadable == [ok |-> FALSE, winners |-> << >>]
Readable(w) == [ok |-> TRUE, winners |-> w]
Rounds(blocks) == [i \in 1..Len(blocks) |-> [round |-> i, blockNumber |-> blocks[i]]]
LongBlocks == [i \in 1..27 |-> ((i * 7) % 25) + 1]
WinnerFiles ==
    {Unreadable, Readable(<< >>)} \cup
    {Readable(Rounds(b)) : b \in {<< 1 >>, << 26 >>, << 3, 3, 2, 9, 1 >>}}
LongWinnerFiles ==
    {Unreadable} \cup
    {Readable(Rounds(b)) : b \in {SubSeq(LongBlocks, 1, 26), LongBlocks}}

\* Array objects that hold probabilities: this.probabilities, the array it
\* referred to before, and one the caller kept.  An array nothing refers to
\* any more is dropped.
VectorIds == 1..3
NoKey == [null |-> TRUE, key |-> << >>]

\* new WinProbabilityAnalyzer()
AnalyzerInit ==
    /\ heap = << >>
    /\ inputs = << >>
    /\ last = NoCall
    /\ held = NoCall
    /\ writes = 0
    /\ ev = NoEv
    /\ post = NoPost
    /\ ranked = NoRank
    /\ walk = NoWalk
    /\ an = [status |-> "ready", fn |-> "constructor",
             winners |-> << >>, before |-> << >>, winnerRanks |-> << >>,
             vectors |-> [id \in VectorIds |-> IF id = 1 THEN [b \in 1..25 |-> Zero] ELSE << >>],
             probabilities |-> 1, lastCalculationHash |-> NoKey,
             returned |-> 0, kept |-> 0, keptCopy |-> << >>, res |-> [null |-> TRUE]]

FreshVector == CHOOSE id \in VectorIds : id \notin {an.probabilities, an.kept}

\* The arrays still referred to after a step.
Referenced(vectors, ids) == [id \in VectorIds |-> IF id \in ids THEN vectors[id] ELSE << >>]

\* loadWinnerHistory()
LoadWinnerHistory(file) ==
    /\ an.status = "ready"
    /\ LET winners == IF file.ok THEN file.winners ELSE << >>
           ranks == IF Len(winners) > 0
                    THEN [i \in 1..Min(15, Len(winners)) |->
                             SortedByRound(winners).sorted[i].blockNumber]
                    ELSE << >>
       IN an' = [an EXCEPT !.fn = "loadWinnerHistory", !.winners = winners,
                           !.before = winners, !.winnerRanks = ranks,
                           !.vectors = Referenced(an.vectors, {an.probabilities, an.kept}),
                           !.returned = 0, !.res = [null |-> TRUE]]
    /\ UNCHANGED <<codecVars, ev, post, ranked, walk>>

\* calculateProbabilities()
CalculateProbabilities ==
    /\ an.status = "ready"
    /\ LET currentHash == [null |-> FALSE, key |-> CalculationHash(an.winners)]
           current == an.vectors[an.probabilities]
       IN IF /\ an.lastCalculationHash = currentHash
             /\ \E i \in 1..Len(current) : Gt0(current[i])
          THEN an' = [an EXCEPT !.fn = "calculateProbabilities", !.before = an.winners,
                                !.vectors = Referenced(an.vectors, {an.probabilities, an.kept}),
                                !.returned = 0, !.res = [null |-> TRUE]]
          ELSE an' = [an EXCEPT !.fn = "calculateProbabilities", !.before = an.winners,
                                !.winners = IF Len(an.winners) = 0 THEN an.winners
                                            ELSE SortedByRound(an.winners).input,
                                !.lastCalculationHash = currentHash,
                                !.vectors = [id \in VectorIds |->
                                    IF id = FreshVector THEN ComputeProbabilities(an.winners)
                                    ELSE IF id = an.kept THEN an.vectors[id]
                                    ELSE << >>],
                                !.probabilities = FreshVector,
                                !.returned = 0, !.res = [null |-> TRUE]]
    /\ UNCHANGED <<codecVars, ev, post, ranked, walk>>

\* getRecentWinnerRank(blockNumber)
CallGetRecentWinnerRank(blockNumber) ==
    /\ an.status = "ready"
    /\ an' = [an EXCEPT !.fn = "getRecentWinnerRank", !.before = an.winners,
                        !.winners = IF Len(an.winners) = 0 THEN an.winners
                                    ELSE SortedByRound(an.winners).input,
                        !.vectors = Referenced(an.vectors, {an.probabilities, an.kept}),
                        !.returned = 0,
                        !.res = getRecentWinnerRank(an.winners, blockNumber)]
    /\ UNCHANGED <<codecVars, ev, post, ranked, walk>>

\* getBlockAnalysis(blockNumber)
CallGetBlockAnalysis(blockNumber) ==
    /\ an.status = "ready"
    /\ an' = [an EXCEPT !.fn = "getBlockAnalysis", !.before = an.winners,
                        !.winners = IF Len(an.winners) = 0 THEN an.winners
                                    ELSE SortedByRound(an.winners).input,
                        !.vectors = Referenced(an.vectors, {an.probabilities, an.kept}),
                        !.returned = 0,
                        !.res = getBlockAnalysis(an.winners, blockNumber)]
    /\ UNCHANGED <<codecVars, ev, post, ranked, walk>>

\* The records of winners.json as dirichletTimeDecayedPriors reads them.
AsPriorsInput(winners) ==
    [i \in 1..Len(winners) |->
        [round |-> winners[i].round, blockNumber |-> Blk(winners[i].blockNumber)]]

\* dirichletTimeDecayedPriors(winners, options) on the history the analyzer
\* holds: it sorts a copy and returns the array its last map() created.
CallDirichletTimeDecayedPriors(options) ==
    /\ an.status = "ready"
    /\ an' = [an EXCEPT !.fn = "dirichletTimeDecayedPriors", !.before = an.winners,
                        !.winners = SortedByRound(an.winners).input,
                        !.vectors = [id \in VectorIds |->
                            IF id = FreshVector
                            THEN dirichletTimeDecayedPriors(AsPriorsInput(an.winners), options)
                            ELSE IF id \in {an.probabilities, an.kept} THEN an.vectors[id]
                            ELSE << >>],
                        !.returned = FreshVector, !.res = [null |-> TRUE]]
    /\ UNCHANGED <<codecVars, ev, post, ranked, walk>>

\* The caller keeps a reference to this.probabilities or to the array just
\* returned.
KeepVector ==
    /\ an.status = "ready"
    /\ \E id \in {an.probabilities, an.returned} \ {0, an.kept} :
          an' = [an EXCEPT !.fn = "keep", !.kept = id, !.keptCopy = an.vectors[id],
                           !.vectors = Referenced(an.vectors, {an.probabilities, id}),
                           !.returned = 0, !.res = [null |-> TRUE]]
    /\ UNCHANGED <<codecVars, ev, post, ranked, walk>>

PriorsOptions ==
    {[alpha |-> OmittedNumber, halfLife |-> Opt(1), maxRounds |-> Opt(2),
      squareCount |-> Omitted]}

AnalyzerNext ==
    \/ \E file \in WinnerFiles : LoadWinnerHistory(file)
    \/ CalculateProbabilities
    \/ \E b \in {1, 3} : CallGetRecentWinnerRank(b)
    \/ \E b \in {1, 3} : CallGetBlockAnalysis(b)
    \/ \E options \in PriorsOptions : CallDirichletTimeDecayedPriors(options)
    \/ KeepVector

SpecAnalyzer == AnalyzerInit /\ [][AnalyzerNext]_vars

\* The same analyzer fed histories longer than the 25 records the cache key
\* reads.
CacheNext ==
    \/ \E file \in LongWinnerFiles : LoadWinnerHistory(file)
    \/ CalculateProbabilities
    \/ \E b \in {5} : CallGetRecentWinnerRank(b)
    \/ \E b \in {5} : CallGetBlockAnalysis(b)
    \/ KeepVector

SpecCache == AnalyzerInit /\ [][CacheNext]_vars

(***************************************************************************)
(* advanced-analyzer.js: AdvancedWinAnalyzer.  A block of the board data   *)
(* is absent (undefined or null) or has participants and amount, where 0   *)
(* stands for any falsy value.  The efficiency array can have holes.       *)
(***************************************************************************)
NoBlock == [hole |-> TRUE]
Block(participants, amount) == [hole |-> FALSE, participants |-> participants, amount |-> amount]

\* x || fallback for a number x
OrElse(x, fallback) == IF x.k = "nan" \/ (x.k = "num" /\ x.n = 0) THEN fallback ELSE x

\* Faulty variant: a win in the newest round counts like one of the newest three.
calculateRiskLevel_NoExtreme(winners, blockNumber, participants, amount) ==
    LET winnerRanks == getRecentWinnerRank(winners, blockNumber)
    IN IF ~winnerRanks.null /\ (\E i \in 1..Len(winnerRanks.ranks) : winnerRanks.ranks[i] >= -3)
       THEN "HIGH"
       ELSE IF Lt(Rat(100, 1), participants) THEN "MEDIUM"
       ELSE IF Lt(Rat(25, 100), amount) THEN "MEDIUM"
       ELSE "LOW"

\* calculateRiskLevel(blockNumber, participants, amount)
calculateRiskLevel(winners, blockNumber, participants, amount) ==
    LET winnerRanks == getRecentWinnerRank(winners, blockNumber)
    IN IF ~winnerRanks.null /\ (\E i \in 1..Len(winnerRanks.ranks) : winnerRanks.ranks[i] = -1)
       THEN "EXTREME"
       ELSE IF ~winnerRanks.null /\ (\E i \in 1..Len(winnerRanks.ranks) : winnerRanks.ranks[i] >= -3)
       THEN "HIGH"
       ELSE IF Lt(Rat(100, 1), participants) THEN "MEDIUM"
       ELSE IF Lt(Rat(25, 100), amount) THEN "MEDIUM"
       ELSE "LOW"

\* The entry calculatePoolEfficiency stores at index i (0-based) for a block.
EfficiencyEntry(winners, i, block) ==
    LET participants == OrElse(block.participants, Rat(100, 1))
        amount == OrElse(block.amount, Rat(4, 100))
        expectedOtherInvestment == Mul(Mul(participants, amount), Rat(24, 1))
        expectedReward == Div(expectedOtherInvestment, participants)
        efficiency_ratio == Div(expectedReward, amount)
    IN [hole |-> FALSE, blockNumber |-> i + 1, participants |-> participants,
        amount |-> amount, efficiency |-> efficiency_ratio,
        expectedReward |-> expectedReward,
        riskLevel |-> calculateRiskLevel(winners, i + 1, participants, amount)]

\* sort((a, b) => b.efficiency - a.efficiency): holes go last.
HigherEfficiency(a, b) == ~a.hole /\ (b.hole \/ Lt(b.efficiency, a.efficiency))

\* calculatePoolEfficiency(blocks)
calculatePoolEfficiency(winners, blocks) ==
    LET present == {i \in 0..24 : i < Len(blocks) /\ ~blocks[i + 1].hole}
        length == IF present = {} THEN 0
                  ELSE (CHOOSE i \in present : \A j \in present : j <= i) + 1
        efficiency == << >> \o [k \in 1..length |->
                         IF (k - 1) \in present
                         THEN EfficiencyEntry(winners, k - 1, blocks[k])
                         ELSE NoBlock]
    IN CHOOSE sorted \in {StableSort(e, [i, j \in 1..Len(e) |-> HigherEfficiency(e[i], e[j])]) :
                              e \in {efficiency}} : TRUE

\* efficiency.find(e => e.blockNumber === i): a hole is read as undefined, and
\* reading its blockNumber throws.
FindBlock(efficiency, i) ==
    LET hits == {k \in 1..Len(efficiency) : ~efficiency[k].hole /\ efficiency[k].blockNumber = i}
        holes == {k \in 1..Len(efficiency) : efficiency[k].hole}
        first(S) == CHOOSE k \in S : \A j \in S : k <= j
    IN IF hits # {} /\ (holes = {} \/ first(hits) < first(holes))
       THEN Ok(efficiency[first(hits)])
       ELSE IF holes # {} THEN Throw("TypeError", "Cannot read properties of undefined")
       ELSE Ok(NoBlock)

FewerParticipants(a, b) == Lt(a.participants, b.participants)

\* getSmartBettingAdvice(blocks), from the sorted efficiency array on.
AdviceFrom(winners, efficiency) ==
    LET Safe(e) == /\ ~e.hole
                   /\ e.riskLevel = "LOW"
                   /\ Lt(Rat(12, 10), e.efficiency)
                   /\ Lt(e.participants, Rat(100, 1))
        safeBets == SliceTo(SelectSeq(efficiency, Safe), 3)
        NoRanks(i) == getRecentWinnerRank(winners, i).null
        Kept(r) == ~r.value.hole
        NotExtreme(e) == ~e.hole /\ e.riskLevel # "EXTREME"
        lowParticipation ==
            CHOOSE sorted \in
                {SliceTo(StableSort(e, [i, j \in 1..Len(e) |-> FewerParticipants(e[i], e[j])]), 2) :
                    e \in {SelectSeq(efficiency, NotExtreme)}} : TRUE
        Defined(e) == ~e.hole
    IN CHOOSE advice \in
          {IF \E i \in 1..25 : ~IsOk(found[i])
           THEN found[CHOOSE i \in 1..25 : ~IsOk(found[i])]
           ELSE Ok([primary |-> safeBets,
                    neverWon |-> SliceTo([k \in 1..Len(SelectSeq(found, Kept)) |->
                                             SelectSeq(found, Kept)[k].value], 2),
                    contrarian |-> lowParticipation,
                    analysis |->
                       [avgEfficiency |->
                            Div(Sum([k \in 1..Len(defined) |-> defined[k].efficiency]),
                                Rat(Len(efficiency), 1)),
                        bestEfficiency |-> IF Len(efficiency) > 0 THEN efficiency[1] ELSE NoBlock,
                        totalParticipants |->
                            Sum([k \in 1..Len(defined) |-> defined[k].participants])]]) :
              found \in {<< >> \o [i \in 1..25 |->
                           IF NoRanks(i) THEN FindBlock(efficiency, i) ELSE Ok(NoBlock)]},
              defined \in {SelectSeq(efficiency, Defined)}} : TRUE

\* getSmartBettingAdvice(blocks)
getSmartBettingAdvice(winners, blocks) ==
    CHOOSE advice \in {AdviceFrom(winners, efficiency) :
                          efficiency \in {calculatePoolEfficiency(winners, blocks)}} : TRUE

\* The entries one category receives; the reason text is kept as its category.
Shares(recs, amount, reason) ==
    [k \in 1..Len(recs) |-> [blockNumber |-> recs[k].blockNumber, amount |-> amount,
                             reason |-> reason]]

\* calculateOptimalAllocation(totalBudget, recommendations)
calculateOptimalAllocation(totalBudget, recommendations) ==
    LET primaryBudget == Mul(totalBudget, Rat(6, 10))
        neverWonBudget == Mul(totalBudget, Rat(25, 100))
        primary == recommendations.primary
        neverWon == recommendations.neverWon
        contrarian == recommendations.contrarian
        remaining1 == IF Len(primary) > 0
                      THEN Add(totalBudget, Mul(primaryBudget, Rat(-1, 1))) ELSE totalBudget
        remaining == IF Len(neverWon) > 0
                     THEN Add(remaining1, Mul(neverWonBudget, Rat(-1, 1))) ELSE remaining1
    IN (IF Len(primary) > 0
        THEN Shares(primary, Div(primaryBudget, Rat(Len(primary), 1)), "primary")
        ELSE << >>)
       \o (IF Len(neverWon) > 0
           THEN Shares(neverWon, Div(neverWonBudget, Rat(Len(neverWon), 1)), "neverWon")
           ELSE << >>)
       \o (IF Len(contrarian) > 0 /\ Gt0(remaining)
           THEN Shares(contrarian, Div(remaining, Rat(Len(contrarian), 1)), "contrarian")
           ELSE << >>)

\* Histories with one record per round: none, one record, the newest of two,
\* five rounds with a repeated winner, and sixteen rounds, the oldest of which
\* is outside the newest 15.
AdvancedHistories ==
    {<< >>} \cup
    {Rounds(b) : b \in {<< 1 >>, << 2 >>, << 1, 2 >>, << 3, 3, 2, 9, 1 >>,
                        << 4, 1, 5, 6, 7, 8, 9, 10, 11, 12, 13, 14, 15, 16, 17, 3 >>}}

\* Board data: all blocks alike; one block with the fewest participants;
\* busy blocks with large amounts; the first block absent; three blocks only;
\* no blocks.
Participants == {Zero, Rat(50, 1), Rat(150, 1)}
Amounts == {Zero, Rat(3, 10)}
BlockData ==
    {[i \in 1..25 |-> Block(p, a)] : p \in Participants, a \in Amounts}
    \cup {[i \in 1..25 |-> IF i = k THEN Block(Rat(10, 1), Rat(3, 10)) ELSE Block(Rat(50, 1), Zero)] :
             k \in {1, 2, 3}}
    \cup {[i \in 1..25 |-> IF i = 1 THEN NoBlock ELSE Block(Rat(50, 1), Zero)],
          [i \in 1..3 |-> Block(Rat(50, 1), Zero)],
          << >>}

Budgets == {Zero, One, Rat(5, 2)}

\* Advice as calculateOptimalAllocation can be handed it: each category empty,
\* with one entry, or with two.
Recommended(blockNumber) ==
    [hole |-> FALSE, blockNumber |-> blockNumber, participants |-> Rat(50, 1),
     amount |-> Rat(4, 100), efficiency |-> Rat(24, 1), expectedReward |-> Rat(96, 100),
     riskLevel |-> "LOW"]
Category(first) ==
    {<< >>, << Recommended(first) >>, << Recommended(first), Recommended(first + 1) >>}
Recommendations ==
    [primary : Category(4), neverWon : Category(6), contrarian : Category(8)]

\* new AdvancedWinAnalyzer().  A call below is followed by the next
\* assignment of winners: what it returns depends on the winners and its
\* arguments only.
AdvancedInit ==
    /\ heap = << >>
    /\ inputs = << >>
    /\ last = NoCall
    /\ held = NoCall
    /\ writes = 0
    /\ ev = NoEv
    /\ post = NoPost
    /\ ranked = NoRank
    /\ walk = NoWalk
    /\ an = [status |-> "advanced", fn |-> "constructor", winners |-> << >>]

\* this.winners = ... (loadWinnerHistory or assignment)
SetWinners(winners) ==
    /\ an.status = "advanced"
    /\ an' = [status |-> "advanced", fn |-> "winners", winners |-> winners]
    /\ UNCHANGED <<codecVars, ev, post, ranked, walk>>

CallCalculateRiskLevel(blockNumber, participants, amount) ==
    /\ an.status = "advanced"
    /\ an.fn \in {"constructor", "winners"}
    /\ an' = [status |-> "advanced", fn |-> "calculateRiskLevel", winners |-> an.winners,
              blockNumber |-> blockNumber, participants |-> participants, amount |-> amount,
              risk |-> calculateRiskLevel(an.winners, blockNumber, participants, amount)]
    /\ UNCHANGED <<codecVars, ev, post, ranked, walk>>

\* displayAdvancedAnalysis(blocks, totalBudget) up to its return value: the
\* advice, and the allocation computed from it.
DisplayAdvancedAnalysis(blocks, totalBudget) ==
    /\ an.status = "advanced"
    /\ an.fn \in {"constructor", "winners"}
    /\ \E advice \in {getSmartBettingAdvice(an.winners, blocks)} :
          an' = [status |-> "advanced", fn |-> "displayAdvancedAnalysis",
                 winners |-> an.winners, blocks |-> blocks, totalBudget |-> totalBudget,
                 advice |-> advice,
                 allocation |-> IF IsOk(advice)
                                THEN Ok(calculateOptimalAllocation(totalBudget, advice.value))
                                ELSE advice]
    /\ UNCHANGED <<codecVars, ev, post, ranked, walk>>

CallCalculateOptimalAllocation(totalBudget, recommendations) ==
    /\ an.status = "advanced"
    /\ an.fn \in {"constructor", "winners"}
    /\ an' = [status |-> "advanced", fn |-> "calculateOptimalAllocation",
              winners |-> an.winners, totalBudget |-> totalBudget,
              recommendations |-> recommendations,
              allocation |-> calculateOptimalAllocation(totalBudget, recommendations)]
    /\ UNCHANGED <<codecVars, ev, post, ranked, walk>>

AdvancedNext ==
    \/ \E winners \in AdvancedHistories : SetWinners(winners)
    \/ \E blockNumber \in 1..4, participants \in Participants \ {Zero}, amount \in Amounts :
          CallCalculateRiskLevel(blockNumber, participants, amount)
    \/ \E blocks \in BlockData, totalBudget \in Budgets :
          DisplayAdvancedAnalysis(blocks, totalBudget)
    \/ \E totalBudget \in Budgets, recommendations \in Recommendations :
          CallCalculateOptimalAllocation(totalBudget, recommendations)

SpecAdvanced == AdvancedInit /\ [][AdvancedNext]_vars

(***************************************************************************)
(* read-round.js: the --recent walk over the rounds before roundId.        *)
(* walk.looked lists the ids looked up, each with whether an account was   *)
(* found; a result's id is the id field of the account found at the PDA of *)
(* cur, which the program sets to cur.                                     *)
(***************************************************************************)
MaxRoundId == 3
MaxWant == 3
RoundIds == (-1)..MaxRoundId
WantArgs == 0..MaxWant

\* What a lookup finds: no account, or an account whose slot hash gives a
\* winning square, a refund or no result yet.
Missing == [found |-> FALSE, w |-> [status |-> "unavailable"]]
Found(w) == [found |-> TRUE, w |-> w]
Lookups ==
    {Missing, Found([status |-> "unavailable"]), Found([status |-> "refund"])}
        \cup {Found([status |-> "ok", index |-> i]) : i \in {0, 24}}

\* Faulty variant: the number of results is not compared with want.
WalkContinues_Unbounded(count, want, cur) == cur >= 0

\* while (results.length < want && cur >= 0n)
WalkContinues(count, want, cur) == count < want /\ cur >= 0

NoSquare == -1

\* results.push(...): a winner carries no status, the others no square.
ResultItem(id, w) ==
    IF w.status = "ok" THEN [id |-> id, square |-> w.index, status |-> "undefined"]
    ELSE [id |-> id, square |-> NoSquare, status |-> w.status]

WalkInit ==
    /\ heap = << >>
    /\ inputs = << >>
    /\ last = NoCall
    /\ held = NoCall
    /\ writes = 0
    /\ ev = NoEv
    /\ post = NoPost
    /\ ranked = NoRank
    /\ an = NoAnalyzer
    /\ walk = NoWalk

\* --recent given: want is checked, cur is set and the loop test is made for
\* the first time.
StartRecent(roundId, want) ==
    /\ walk.status = "none"
    /\ walk' = IF want <= 0
               THEN [status |-> "throw", roundId |-> roundId, want |-> want, cur |-> 0,
                     results |-> << >>, looked |-> << >>]
               ELSE LET cur == IF roundId > 0 THEN roundId - 1 ELSE 0
                    IN [status |-> IF WalkContinues(0, want, cur) THEN "walking" ELSE "done",
                        roundId |-> roundId, want |-> want, cur |-> cur,
                        results |-> << >>, looked |-> << >>]
    /\ UNCHANGED <<codecVars, ev, post, ranked, an>>

\* One pass through the loop body, up to the next loop test.
WalkStep(lookup) ==
    /\ walk.status = "walking"
    /\ LET looked == Append(walk.looked, [id |-> walk.cur, found |-> lookup.found])
       IN IF ~lookup.found
          THEN walk' = [walk EXCEPT !.status = "done", !.looked = looked]
          ELSE LET results == Append(walk.results, ResultItem(walk.cur, lookup.w))
               IN IF walk.cur = 0
                  THEN walk' = [walk EXCEPT !.status = "done", !.looked = looked,
                                            !.results = results]
                  ELSE walk' = [walk EXCEPT
                                  !.status = IF WalkContinues(Len(results), walk.want, walk.cur - 1)
                                             THEN "walking" ELSE "done",
                                  !.looked = looked, !.results = results,
                                  !.cur = walk.cur - 1]
    /\ UNCHANGED <<codecVars, ev, post, ranked, an>>

WalkNext ==
    \/ \E roundId \in RoundIds, want \in WantArgs : StartRecent(roundId, want)
    \/ \E lookup \in Lookups : WalkStep(lookup)

\* Every lookup is answered, so a pass that can run does run.
SpecWalk == WalkInit /\ [][WalkNext]_vars /\ WF_vars(WalkNext)

(***************************************************************************)
(* Codec properties                                                        *)
(***************************************************************************)
BoardFns == {"decodeBoard", "evDecodeBoard"}
RoundFns == {"decodeRound", "evDecodeRound"}

\* Layout sizes: 8 + 24 for a board; discriminator, id, deployed, slot_hash,
\* count, expires_at, motherlode, two addresses, four totals for a round.
BoardLayoutLen == 8 + 24
RoundLayoutLen == 8 + 8 + 25 * 8 + 32 + 25 * 8 + 2 * 8 + 2 * 32 + 4 * 8

\* The 8 bytes of b at offset o, as the digits of a little-endian value:
\* digit j (weight 256^(j-1)) is the byte at offset o + j - 1.
FieldAt(b, o) == [j \in 1..8 |-> b[o + j]]
BytesAt(b, o, n) == [j \in 1..n |-> b[o + j]]

\* C6 (as claimed): a board buffer shorter than 32 bytes and a round buffer
\* shorter than the round layout make the decoder fail with a
\* truncated-buffer error that carries the minimum required length.
C6_TruncatedErrorCarriesMinLength ==
    /\ (last.fn \in BoardFns /\ ~last.isNull /\ Len(last.bytes) < BoardLayoutLen)
          => /\ last.res.status = "throw"
             /\ last.res.name = "TruncatedBufferError"
             /\ "minLength" \in DOMAIN last.res
             /\ last.res.minLength = BoardLayoutLen
    /\ (last.fn \in RoundFns /\ ~last.isNull /\ Len(last.bytes) < RoundLayoutLen)
          => /\ last.res.status = "throw"
             /\ last.res.name = "TruncatedBufferError"
             /\ "minLength" \in DOMAIN last.res
             /\ last.res.minLength = RoundLayoutLen

\* C7 (as claimed): decodeRound succeeds on every buffer of at least 498
\* bytes and reads no byte at an offset of 498 or more.
C7_MinLength498 ==
    (last.fn \in RoundFns /\ ~last.isNull /\ Len(last.bytes) >= 498)
        => (IsOk(last.res) /\ last.extent <= 498)

\* C7 (amended): the minimum buffer length of a round is 560 bytes:
\* decodeRound succeeds exactly on the buffers of at least 560 bytes and
\* reads no byte at an offset of 560 or more.
C7_MinLength560 ==
    (last.fn \in RoundFns /\ ~last.isNull)
        => /\ IsOk(last.res) <=> Len(last.bytes) >= 560
           /\ last.extent <= 560

C7_Witness ==
    /\ last.fn = "decodeRound"
    /\ Len(last.bytes) = 560
    /\ IsOk(last.res)
    /\ last.extent = 560

\* C8: decoding skips the 8-byte discriminator and reads every field as the
\* little-endian value of its bytes at its fixed offset; the decodeRound of
\* ev-picks.js and that of read-round.js agree on id, deployed, count and
\* total_deployed.
C8_FieldsAtFixedOffsets ==
    /\ (last.fn \in BoardFns /\ IsOk(last.res)) =>
          /\ last.res.value.round_id = FieldAt(last.bytes, 8)
          /\ last.res.value.start_slot = FieldAt(last.bytes, 16)
          /\ last.res.value.end_slot = FieldAt(last.bytes, 24)
    /\ (last.fn \in RoundFns /\ IsOk(last.res)) =>
          /\ last.res.value.id = FieldAt(last.bytes, 8)
          /\ Len(last.res.value.deployed) = 25
          /\ \A i \in 0..24 : last.res.value.deployed[i + 1] = FieldAt(last.bytes, 16 + 8 * i)
          /\ Len(last.res.value.count) = 25
          /\ \A i \in 0..24 : last.res.value.count[i + 1] = FieldAt(last.bytes, 248 + 8 * i)
          /\ last.res.value.total_deployed = FieldAt(last.bytes, 536)
    /\ (last.fn = "decodeRound" /\ IsOk(last.res)) =>
          /\ last.hash = BytesAt(last.bytes, 216, 32)
          /\ last.res.value.expires_at = FieldAt(last.bytes, 448)
          /\ last.res.value.motherlode = FieldAt(last.bytes, 456)
          /\ last.res.value.rent_payer = BytesAt(last.bytes, 464, 32)
          /\ last.res.value.top_miner = BytesAt(last.bytes, 496, 32)
          /\ last.res.value.top_miner_reward = FieldAt(last.bytes, 528)
          /\ last.res.value.total_vaulted = FieldAt(last.bytes, 544)
          /\ last.res.value.total_winnings = FieldAt(last.bytes, 552)
    /\ \A w \in 1..2 :
          LET er == evDecodeRound(inputs[w]).res
              rr == decodeRound(inputs[w], FreshId).res
          IN (IsOk(er) \/ IsOk(rr)) =>
                /\ IsOk(er) /\ IsOk(rr)
                /\ er.value.id = rr.value.id
                /\ er.value.deployed = rr.value.deployed
                /\ er.value.count = rr.value.count
                /\ er.value.total_deployed = rr.value.total_deployed

\* A round decoded from bytes that tell the byte orders, and the
\* discriminator from the fields, apart.
C8_Witness ==
    /\ last.fn = "decodeRound"
    /\ IsOk(last.res)
    /\ last.bytes[9] # last.bytes[16]
    /\ last.bytes[1] # last.bytes[9]
    /\ Len(last.bytes) > 560

\* The record of a call as its caller sees it: slot_hash by its bytes.
Seen(call) ==
    IF call.fn = "decodeRound"
    THEN [call.res.value EXCEPT !.slot_hash = call.hash]
    ELSE call.res.value

\* C9: two calls of decodeBoard (or of decodeRound) on buffers with the same
\* bytes return field-for-field identical records, whatever was decoded in
\* between.
C9_Deterministic ==
    (held.fn # "none" /\ held.fn = last.fn /\ held.bytes = last.bytes)
        => /\ held.res.status = last.res.status
           /\ IsOk(last.res) => Seen(held) = Seen(last)

\* The same bytes decoded from two different buffers.
C9_Witness ==
    /\ held.fn = "decodeRound"
    /\ last.fn = "decodeRound"
    /\ held.arg # last.arg
    /\ held.bytes = last.bytes
    /\ IsOk(held.res)
    /\ IsOk(last.res)
    /\ held.bytes[9] # 0

\* C10: a decode call leaves the input buffers unchanged, and the record it
\* returned (slot_hash included) is a snapshot of the bytes at the call:
\* later writes to the input do not change it.
IsSnapshot(call) ==
    (call.fn = "decodeRound" /\ IsOk(call.res)) =>
        /\ HashIn(heap, call) = call.hash
        /\ call.hash = BytesAt(call.bytes, 216, 32)
        /\ call.res.value.slot_hash.store \notin InputStores

C10_Snapshot == IsSnapshot(last) /\ IsSnapshot(held)

C10_CallsLeaveInputs ==
    (writes' = writes) =>
        \A w \in 1..2 : BytesIn(heap', inputs'[w]) = BytesIn(heap, inputs[w])

C10_FreshSnapshot == [](C10_Snapshot) /\ [][C10_CallsLeaveInputs]_vars

\* A kept round whose input has since been overwritten inside slot_hash.
C10_Witness ==
    /\ held.fn = "decodeRound"
    /\ IsOk(held.res)
    /\ writes > 0
    /\ BytesAt(Bytes(inputs[held.arg]), 216, 32) # held.hash

(***************************************************************************)
(* Winning-square properties                                               *)
(***************************************************************************)
\* Bit b of byte x.
BitOf(x, b) == (x \div (2^b)) % 2

\* Bit b of byte j (both from 0) of r1 XOR r2 XOR r3 XOR r4, where word i
\* is bytes 8i..8i+7 of the hash h: the parity of the four bits.
XorBit(h, j, b) ==
    (BitOf(h[j + 1], b) + BitOf(h[8 + j + 1], b)
       + BitOf(h[16 + j + 1], b) + BitOf(h[24 + j + 1], b)) % 2

RECURSIVE SumBits(_, _, _)
SumBits(h, j, b) ==
    IF b < 0 THEN 0 ELSE XorBit(h, j, b) * (2^b) + SumBits(h, j, b - 1)

\* (r1 XOR r2 XOR r3 XOR r4) mod 25, from the weights of the bytes:
\* 256^j mod 25 = 6^j mod 25.
RECURSIVE XorMod25(_, _)
XorMod25(h, j) ==
    IF j < 0 THEN 0
    ELSE (SumBits(h, j, 7) * ((6^j) % 25) + XorMod25(h, j - 1)) % 25

\* C1: for a 32-byte slot hash the result is tagged 'unavailable' exactly
\* when all bytes are 0x00, 'refund' exactly when all bytes are 0xFF, and
\* otherwise 'ok' with index (r1 XOR r2 XOR r3 XOR r4) mod 25, in 0..24.
C1_TaggedWinningSquare ==
    (last.fn = "winningSquareFromSlotHash" /\ ~last.isNull /\ Len(last.bytes) = 32) =>
        LET h == last.bytes
            r == last.res.value
            allZero == \A i \in 1..32 : h[i] = 0
            allFF == \A i \in 1..32 : h[i] = 255
        IN /\ r.status \in {"unavailable", "refund", "ok"}
           /\ r.status = "unavailable" <=> allZero
           /\ r.status = "refund" <=> allFF
           /\ r.status = "ok" =>
                 /\ r.index = XorMod25(h, 7)
                 /\ r.index \in 0..24

\* A resolved winner on square 0, from a hash with a single non-zero byte
\* in its last word.
C1_Witness ==
    /\ last.fn = "winningSquareFromSlotHash"
    /\ Len(last.bytes) = 32
    /\ last.res.value.status = "ok"
    /\ last.res.value.index = 0
    /\ last.bytes[1] = 0
    /\ \E i \in 25..32 : last.bytes[i] # 0

(***************************************************************************)
(* Expected-value properties                                               *)
(***************************************************************************)
\* q = floor(n / d) for magnitudes: d * q <= n < d * (q + 1).
IsFloor(q, n, d) ==
    /\ MagLeq(MagMul(d, q), n)
    /\ MagLess(n, MagMul(d, MagAdd(q, << 1 >>)))

U64Max == << 255, 255, 255, 255, 255, 255, 255, 255 >>

\* C4: for deployed d >= 0, total T >= d and stake a > 0, all within u64,
\* S_win = floor(99a/100) + floor((T - d) * a * 891 / ((d + a) * 1000)) and
\* EV = -a + floor(S_win / 25), over unbounded integers (no wrap at 2^64).
C4_ExactEV ==
    (/\ ev.status = "called"
     /\ ~ev.deployed.neg /\ ~ev.total.neg /\ ~ev.aLamports.neg
     /\ ~BigIsZero(ev.aLamports)
     /\ MagLeq(ev.deployed.mag, ev.total.mag)) =>
        LET d == ev.deployed.mag
            T == ev.total.mag
            a == ev.aLamports.mag
            n1 == MagMul(<< 99 >>, a)
            q1 == MagDivMod(n1, << 100 >>).q
            n2 == MagMul(FromNat(891), MagMul(a, MagSub(T, d)))
            d2 == MagMul(FromNat(1000), MagAdd(d, a))
            q2 == MagDivMod(n2, d2).q
            S == MagAdd(q1, q2)
            q3 == MagDivMod(S, << 25 >>).q
        IN /\ IsFloor(q1, n1, << 100 >>)
           /\ IsFloor(q2, n2, d2)
           /\ IsFloor(q3, S, << 25 >>)
           /\ IsOk(ev.res)
           /\ ev.res.value.S_win = Big(FALSE, S)
           /\ BigAdd(ev.res.value.EV, ev.aLamports) = Big(FALSE, q3)

\* A call whose product (T - d) * a * 891 does not fit in 64 bits.
C4_Witness ==
    /\ ev.status = "called"
    /\ ~ev.deployed.neg /\ ~ev.aLamports.neg /\ ~BigIsZero(ev.aLamports)
    /\ ~BigIsZero(ev.deployed)
    /\ MagLess(ev.deployed.mag, ev.total.mag)
    /\ MagLess(U64Max,
               MagMul(FromNat(891), MagMul(ev.aLamports.mag,
                                           MagSub(ev.total.mag, ev.deployed.mag))))
    /\ IsOk(ev.res)
    /\ ~BigIsZero(ev.res.value.S_win)

\* C5 (as claimed): a stake a <= 0 makes the estimator fail with an
\* invalid-stake error, and a negative deployed amount makes it fail with a
\* malformed-round error; no value is returned for such input.
C5_InvalidInputRejected ==
    ev.status = "called" =>
        /\ (ev.aLamports.neg \/ BigIsZero(ev.aLamports)) =>
              (ev.res.status = "throw" /\ ev.res.name = "InvalidStakeError")
        /\ (ev.deployed.neg /\ ~(ev.aLamports.neg \/ BigIsZero(ev.aLamports))) =>
              (ev.res.status = "throw" /\ ev.res.name = "MalformedRoundError")

\* x <= y for signed values
BigLeq(x, y) == ~BigSub(y, x).neg

\* q = floor(n / d) for signed n, q and d > 0: d * q <= n < d * (q + 1).
IsFloorBig(q, n, d) ==
    /\ BigLeq(BigMul(d, q), n)
    /\ BigLeq(n, BigMul(d, BigAdd(q, BigNat(1))))
    /\ n # BigMul(d, BigAdd(q, BigNat(1)))

\* C20 (as claimed): for deployed d >= 0, total T >= 0 and stake a > 0, with T
\* allowed to be below d, every quotient of the computation is rounded toward
\* negative infinity: the share (T - d) * a * 891 / ((d + a) * 1000) and
\* S_win / 25.
C20_FloorDivision ==
    (/\ ev.status = "called"
     /\ ~ev.deployed.neg /\ ~ev.total.neg /\ ~ev.aLamports.neg
     /\ ~BigIsZero(ev.aLamports)) =>
        LET a == ev.aLamports
            base == Big(FALSE, MagDivMod(MagMul(<< 99 >>, a.mag), << 100 >>).q)
            numer == BigMul(BigMul(BigSub(ev.total, ev.deployed), a), BigNat(891))
            denom == BigMul(BigAdd(ev.deployed, a), BigNat(1000))
        IN /\ IsOk(ev.res)
           /\ IsFloorBig(BigSub(ev.res.value.S_win, base), numer, denom)
           /\ IsFloorBig(BigAdd(ev.res.value.EV, a), ev.res.value.S_win, BigNat(25))

(***************************************************************************)
(* Estimator properties                                                    *)
(***************************************************************************)
\* C2 (as claimed): for any history and any config the returned vector has
\* exactly 25 entries and they sum to 1.
C2_TwentyFiveSummingToOne ==
    post.status = "called" =>
        /\ Len(post.probs) = 25
        /\ \A i \in 1..Len(post.probs) : post.probs[i].k = "num"
        /\ Sum(post.probs) = One

\* C3: with an empty history every one of the 25 entries is 1/25, for every
\* alpha, alpha = 0 included.
C3_EmptyHistoryUniform ==
    (post.status = "called" /\ post.winners = << >>) =>
        /\ Len(post.probs) = 25
        /\ \A i \in 1..25 : post.probs[i] = Rat(1, 25)

\* The empty history with alpha = 0, where the posterior mean is 0/0.
C3_Witness ==
    /\ post.status = "called"
    /\ post.winners = << >>
    /\ post.options.alpha.set
    /\ post.options.alpha.v = Zero
    /\ Len(post.probs) = 25

\* The factor the anti-streak stage owes square k for window w.
StreakFactor(w, k) ==
    Mul(IF Len(w) >= 1 /\ w[1].blockNumber = Blk(k) THEN Rat(6, 10) ELSE One,
        IF Len(w) >= 2 /\ w[2].blockNumber = Blk(k) THEN Rat(8, 10) ELSE One)

\* C11: the anti-streak stage takes the posterior mean and hands its result to
\* the renormalisation; it multiplies the square of the newest window entry by
\* 0.6 and that of the second newest by 0.8 (0.48 when they are the same
\* square, 0.6 alone for a one-entry window) and leaves every other square's
\* value as the posterior mean gave it.
C11_AntiStreakStage ==
    post.status = "called" =>
        LET l == post.locals
            s == Sum(l.penalised)
        IN /\ \A k \in 0..24 :
                 l.penalised[k + 1] = Mul(l.mean[k + 1], StreakFactor(l.sorted, k))
           /\ Gt0(s) => \A k \in 0..24 : post.probs[k + 1] = Div(l.penalised[k + 1], s)

\* The two newest entries name the same square, which gets both factors.
C11_Witness ==
    /\ post.status = "called"
    /\ Len(post.locals.sorted) >= 2
    /\ post.locals.sorted[1].blockNumber = Blk(1)
    /\ post.locals.sorted[2].blockNumber = Blk(1)
    /\ post.locals.mean[2].k = "num"
    /\ post.locals.mean[2].n > 0
    /\ post.locals.penalised[2] = Mul(post.locals.mean[2], Rat(48, 100))
    /\ post.locals.penalised[1] = post.locals.mean[1]

\* The place in the input of the record that sorts first (the most recent).
NewestAt(winners) ==
    CHOOSE i \in 1..Len(winners) :
        \A j \in 1..Len(winners) :
            \/ winners[j].round < winners[i].round
            \/ (winners[j].round = winners[i].round /\ j >= i)

\* The input without its record at place i.
Without(winners, i) ==
    [j \in 1..(Len(winners) - 1) |-> IF j < i THEN winners[j] ELSE winners[j + 1]]

InRange(b) == b.isInt /\ b.v \in 0..24

\* C12 (as claimed): when the most recent record of a history is a win on
\* square s, the output for s is strictly lower than the output for s on the
\* history without that record.
C12_RecentWinLowersSquare ==
    (/\ post.status = "called"
     /\ post.winners # << >>
     /\ InRange(post.winners[NewestAt(post.winners)].blockNumber)) =>
        LET i == NewestAt(post.winners)
            sq == post.winners[i].blockNumber.v
            rest == dirichletTimeDecayedPriors(Without(post.winners, i), post.options)
        IN Lt(post.probs[sq + 1], rest[sq + 1])

\* C13 (as claimed): when the newest window entry names an in-range square
\* s0, the final value of s0 is strictly lower than the value the computation
\* gives s0 with the anti-streak stage skipped, and the result is a 25-entry
\* vector summing to 1.
C13_PenaltyLowersNewest ==
    (/\ post.status = "called"
     /\ Len(post.locals.sorted) >= 1
     /\ InRange(post.locals.sorted[1].blockNumber)) =>
        LET s0 == post.locals.sorted[1].blockNumber.v
            skipped == Renormalize(post.locals.mean, 25)
        IN /\ Lt(post.probs[s0 + 1], skipped[s0 + 1])
           /\ Len(post.probs) = 25
           /\ Sum(post.probs) = One

\* The input with its most recent record given a round below all others.
MovedToOldest(winners) ==
    LET i == NewestAt(winners)
        low == CHOOSE r \in {winners[j].round : j \in 1..Len(winners)} :
                   \A j \in 1..Len(winners) : r <= winners[j].round
    IN [winners EXCEPT ![i].round = low - 1]

RECURSIVE WeightOn(_, _, _)
WeightOn(l, k, n) ==
    IF n = 0 THEN Zero
    ELSE Add(WeightOn(l, k, n - 1),
             IF l.sorted[n].blockNumber = Blk(k) THEN Pow2Neg(n - 1, l.halfLife) ELSE Zero)

\* C15 (as claimed): when a window entry's blockNumber is not an integer in
\* 0..24, wherever it sits, its weight is added to no square's count and the
\* result is still a vector of 25 probabilities summing to 1.
C15_MalformedEntriesIgnored ==
    (/\ post.status = "called"
     /\ \E i \in 1..Len(post.locals.sorted) : ~InRange(post.locals.sorted[i].blockNumber)) =>
        /\ \A k \in 0..24 :
              post.locals.counts[k + 1] = WeightOn(post.locals, k, Len(post.locals.sorted))
        /\ Len(post.probs) = 25
        /\ \A i \in 1..Len(post.probs) : post.probs[i].k = "num"
        /\ Sum(post.probs) = One

\* The records of the input with a round of at least r, in input order.
FromRound(winners, r) ==
    LET Recent(w) == w.round >= r IN SelectSeq(winners, Recent)

\* C16: only the maxRounds records with the highest rounds count: when the
\* records beyond the first maxRounds all have rounds below those, the output
\* is that of the history without them; with maxRounds = 0 it is uniform.
C16_OnlyWindowCounts ==
    post.status = "called" =>
        LET m == post.locals.maxRounds
            byRound == SortDesc(post.winners)
        IN /\ m = 0 => /\ Len(post.probs) = 25
                       /\ \A i \in 1..25 : post.probs[i] = Rat(1, 25)
           /\ (/\ m > 0
               /\ Len(post.winners) > m
               /\ byRound[m].round > byRound[m + 1].round) =>
                 post.probs = dirichletTimeDecayedPriors(
                                  FromRound(post.winners, byRound[m].round), post.options)

\* Two older records on another square follow a window of one record.
C16_Witness ==
    /\ post.status = "called"
    /\ post.locals.maxRounds = 1
    /\ Len(post.winners) = 3
    /\ Len(post.locals.sorted) = 1
    /\ post.locals.sorted[1] = [round |-> 2, blockNumber |-> Blk(0)]
    /\ \A i \in 1..3 : post.winners[i].round = 1 => post.winners[i].blockNumber = Blk(1)
    /\ Cardinality({i \in 1..3 : post.winners[i].round = 1}) = 2
    /\ post.probs[2].k = "num"
    /\ post.probs[2] = post.probs[3]

\* The input with its records at places i and j exchanged.
Swapped(winners, i, j) == [winners EXCEPT ![i] = winners[j], ![j] = winners[i]]

\* C17 (as claimed): the output does not depend on the order of the input
\* records; exchanging any two of them, records of the same round included,
\* gives the same vector.
C17_OrderIrrelevant ==
    post.status = "called" =>
        \A i, j \in 1..Len(post.winners) :
            dirichletTimeDecayedPriors(Swapped(post.winners, i, j), post.options) = post.probs

\* C18: before the anti-streak stage the estimate is the closed-form posterior
\* mean.  The weight of a window entry depends on its position alone (1 for
\* the newest, falling with age, halved every halfLife positions); counts[k]
\* is the sum of the weights of the window entries on square k; and
\* p[k] = (alpha + counts[k]) / (25 * alpha + sum(counts)) for every square.
C18_ClosedFormPosteriorMean ==
    post.status = "called" =>
        LET l == post.locals
            n == Len(l.sorted)
            total == Add(Mul(Rat(25, 1), l.alpha), Sum(l.counts))
        IN /\ Len(l.weights) = n
           /\ n >= 1 => l.weights[1] = One
           /\ \A i \in 1..n : i < n => Lt(l.weights[i + 1], l.weights[i])
           /\ \A i \in 1..n : i + l.halfLife <= n =>
                  Mul(l.weights[i + l.halfLife], Rat(2, 1)) = l.weights[i]
           /\ Len(l.counts) = 25 /\ Len(l.mean) = 25
           /\ \A k \in 0..24 :
                 /\ l.counts[k + 1] = WeightOn(l, k, n)
                 /\ l.mean[k + 1] = Div(Add(l.alpha, l.counts[k + 1]), total)

\* Window 0, 1, 0 with halfLife 1 and alpha 1: counts 5/4 and 1/2, and
\* p[0] = (1 + 5/4) / (25 + 7/4) = 9/107.
C18_Witness ==
    /\ post.status = "called"
    /\ Len(post.locals.sorted) = 3
    /\ post.locals.halfLife = 1
    /\ post.locals.alpha = One
    /\ [i \in 1..3 |-> post.locals.sorted[i].blockNumber] = << Blk(0), Blk(1), Blk(0) >>
    /\ post.locals.counts[1] = Rat(5, 4)
    /\ post.locals.counts[2] = Rat(1, 2)
    /\ post.locals.mean[1] = Rat(9, 107)

\* C19 (as claimed): alpha, halfLife, maxRounds and squareCount take the
\* defaults 1.0, 10, 30 and 25 when left out and the given value otherwise, a
\* given 0 included; the result has squareCount entries and the uniform
\* fallback is 1/squareCount.
C19_OptionsAndDefaults ==
    post.status = "called" =>
        LET o == post.options
            l == post.locals
            n == IF o.squareCount.set THEN o.squareCount.v ELSE 25
        IN /\ l.alpha = IF o.alpha.set THEN o.alpha.v ELSE One
           /\ l.halfLife = IF o.halfLife.set THEN o.halfLife.v ELSE 10
           /\ l.maxRounds = IF o.maxRounds.set THEN o.maxRounds.v ELSE 30
           /\ Len(post.probs) = n
           /\ (n > 0 /\ ~Gt0(Sum(l.penalised))) =>
                 \A i \in 1..Len(post.probs) : post.probs[i] = Rat(1, n)

(***************************************************************************)
(* Ranking properties                                                      *)
(***************************************************************************)
\* C21: for a fixed round total T and stake a > 0 the EV of a square depends
\* on its own deployed amount alone and does not grow with it: squares with
\* equal amounts get equal EV (an all-zero board gives one EV to every
\* square), and d_i < d_j <= T implies EV_i >= EV_j.
C21_EvFallsWithDeployed ==
    (ranked.status = "called" /\ ranked.fn = "evMain") =>
        \A i, j \in 1..25 :
            LET di == ranked.deployed[i]
                dj == ranked.deployed[j]
                EVi == ranked.results[i].EV
                EVj == ranked.results[j].EV
            IN /\ di = dj => EVi = EVj
               /\ (BigLeq(di, dj) /\ di # dj /\ BigLeq(dj, ranked.total_deployed)) =>
                     BigLeq(EVj, EVi)

\* A board on which a square with less deployed has a strictly higher EV than
\* one with more, both within the total.
C21_Witness ==
    /\ ranked.status = "called" /\ ranked.fn = "evMain"
    /\ \E i, j \in 1..25 :
          /\ BigLeq(ranked.deployed[i], ranked.deployed[j])
          /\ ranked.deployed[i] # ranked.deployed[j]
          /\ BigLeq(ranked.deployed[j], ranked.total_deployed)
          /\ BigLeq(ranked.results[j].EV, ranked.results[i].EV)
          /\ ranked.results[j].EV # ranked.results[i].EV
          /\ ranked.results[i].idx0 = i - 1

BigLess(x, y) == BigLeq(x, y) /\ x # y

\* x < y for numbers, or for BigInts.
ValueLess(big, x, y) == IF big THEN BigLess(x, y) ELSE Lt(x, y)

\* picks (square index i, value v) are the n largest of values in descending
\* order, equal values in ascending square index.
IsTopRanking(picks, values, n, big) ==
    /\ Len(picks) = n
    /\ \A k \in 1..n :
          /\ picks[k].i \in 0..(Len(values) - 1)
          /\ picks[k].v = values[picks[k].i + 1]
    /\ \A k \in 1..(n - 1) :
          /\ ~ValueLess(big, picks[k].v, picks[k + 1].v)
          /\ picks[k].v = picks[k + 1].v => picks[k].i < picks[k + 1].i
    /\ \A j \in 0..(Len(values) - 1) :
          (n > 0 /\ \A k \in 1..n : picks[k].i # j) =>
              /\ ~ValueLess(big, picks[n].v, values[j + 1])
              /\ values[j + 1] = picks[n].v => picks[n].i < j

\* C22: each ranker returns the n entries with the largest values, largest
\* first, entries of equal value by ascending square index: topN and
\* getRecommendations for n up to the vector length, and the three entries
\* ev-picks.js prints.
C22_TopRanking ==
    /\ (ranked.status = "called" /\ ranked.fn = "topN" /\ ranked.n <= Len(ranked.values)) =>
          /\ IsOk(ranked.res)
          /\ IsTopRanking([k \in 1..Len(ranked.res.value) |->
                              [i |-> ranked.res.value[k].index0, v |-> ranked.res.value[k].p]],
                          ranked.values, ranked.n, FALSE)
          /\ \A k \in 1..Len(ranked.res.value) :
                ranked.res.value[k].index1 = ranked.res.value[k].index0 + 1
    /\ (/\ ranked.status = "called" /\ ranked.fn = "getRecommendations"
        /\ ranked.n <= Len(ranked.values)) =>
          /\ IsOk(ranked.res)
          /\ IsTopRanking([k \in 1..Len(ranked.res.value) |->
                              [i |-> ranked.res.value[k].index,
                               v |-> ranked.res.value[k].probability]],
                          ranked.values, ranked.n, FALSE)
          /\ \A k \in 1..Len(ranked.res.value) :
                ranked.res.value[k].blockNumber = ranked.res.value[k].index + 1
    /\ (ranked.status = "called" /\ ranked.fn = "evMain") =>
          IsTopRanking([k \in 1..Len(ranked.top) |->
                           [i |-> ranked.top[k].idx0, v |-> ranked.top[k].EV]],
                       [i \in 1..25 |-> ranked.results[i].EV], 3, TRUE)

\* topN cuts through a run of equal values: the second entry returned and an
\* entry left out have the same value.
C22_Witness ==
    /\ ranked.status = "called" /\ ranked.fn = "topN"
    /\ ranked.n = 2 /\ Len(ranked.values) = 4
    /\ IsOk(ranked.res)
    /\ Lt(ranked.res.value[2].p, ranked.res.value[1].p)
    /\ \E j \in 1..4 :
          /\ ranked.values[j] = ranked.res.value[2].p
          /\ j - 1 > ranked.res.value[2].index0
    /\ ranked.values[1] = Zero

\* C23 (as claimed): asked for more entries than the vector has, the ranker
\* fails with an invalid-argument error and returns no list.
C23_TooManyWantedRejected ==
    (/\ ranked.status = "called"
     /\ ranked.fn \in {"topN", "getRecommendations"}
     /\ ranked.n > Len(ranked.values)) =>
        /\ ranked.res.status = "throw"
        /\ ranked.res.name = "InvalidArgumentError"


(***************************************************************************)
(* Analyzer properties                                                     *)
(***************************************************************************)

\* C24: an estimation call (dirichletTimeDecayedPriors, calculateProbabilities,
\* getRecentWinnerRank, getBlockAnalysis) leaves the history with the same
\* records in the same order, the array a call creates is a new one, and an
\* array the caller obtained earlier keeps its contents.
C24_InputsNeverMutated ==
    /\ an.status = "ready" /\ an.fn \in {"dirichletTimeDecayedPriors", "calculateProbabilities",
                                          "getRecentWinnerRank", "getBlockAnalysis"}
          => an.winners = an.before
    /\ an.status = "ready" /\ an.kept # 0 => an.vectors[an.kept] = an.keptCopy
    /\ an.status = "ready" /\ an.returned # 0 => an.returned \notin {an.kept, an.probabilities}

C24_Witness ==
    /\ an.status = "ready"
    /\ an.fn = "dirichletTimeDecayedPriors"
    /\ Len(an.winners) = 5
    /\ an.kept # 0
    /\ an.kept # an.probabilities
    /\ an.vectors[an.kept] # an.vectors[an.probabilities]
    /\ an.vectors[an.returned] # an.vectors[an.kept]

\* C25: the result cache is transparent: after every calculateProbabilities
\* call the probabilities are the ones a fresh analyzer computes from the
\* current winners.
C25_CacheTransparent ==
    an.status = "ready" /\ an.fn = "calculateProbabilities"
        => an.vectors[an.probabilities] = ComputeProbabilities(an.winners)

\* C26: after every calculateProbabilities call the probabilities are 25
\* non-negative values that sum to 1, each of them 1/25 when the history is
\* empty (as it is after a load that failed).
C26_ProbabilitiesAreDistribution ==
    an.status = "ready" /\ an.fn = "calculateProbabilities" =>
        LET probs == an.vectors[an.probabilities]
        IN /\ Len(probs) = 25
           /\ \A b \in 1..25 : probs[b].k = "num" /\ probs[b].n >= 0
           /\ Sum(probs) = One
           /\ an.winners = << >> => \A b \in 1..25 : probs[b] = Rat(1, 25)

\* A calculation on an empty history that replaced probabilities computed from
\* a non-empty one, which the caller still holds.
C26_Witness ==
    /\ an.status = "ready"
    /\ an.fn = "calculateProbabilities"
    /\ an.winners = << >>
    /\ an.kept # 0
    /\ an.kept # an.probabilities
    /\ an.keptCopy[1] # Rat(1, 25)
    /\ an.vectors[an.probabilities][1] = Rat(1, 25)

\* The position (0 = newest) of a block's most recent win in the newest 25
\* rounds, 25 when it has none.
LastWinPosition(winners, block) ==
    LET window == SliceTo(SortDesc(winners), 25)
        wins == {i \in 1..Len(window) : window[i].blockNumber = block}
    IN IF wins = {} THEN 25 ELSE (CHOOSE i \in wins : \A j \in wins : i <= j) - 1

\* C27: of two squares, the one whose most recent win in the newest 25 rounds
\* is more recent never has the higher probability (a square without a win
\* there counting as the least recent).
C27_MoreRecentNeverHigher ==
    an.status = "ready" /\ an.fn = "calculateProbabilities" /\ Len(an.winners) > 0 =>
        LET probs == an.vectors[an.probabilities]
        IN \A a, b \in 1..25 :
              LastWinPosition(an.winners, a) < LastWinPosition(an.winners, b)
                  => ~Lt(probs[b], probs[a])

(***************************************************************************)
(* Walk properties                                                         *)
(***************************************************************************)
\* What holds of a walk that starts at round id start.
WalkShape(start) ==
    walk.status \in {"walking", "done"} =>
        LET looked == walk.looked
            results == walk.results
            foundIds == SelectSeq(looked, LAMBDA l : l.found)
            stop == \/ Len(results) = walk.want
                    \/ (Len(looked) > 0 /\ ~looked[Len(looked)].found)
                    \/ (Len(looked) > 0 /\ looked[Len(looked)].id = 0)
        IN /\ Len(looked) > 0 => looked[1].id = start
           /\ \A i \in 2..Len(looked) : looked[i].id = looked[i - 1].id - 1
           /\ \A i \in 1..Len(looked) : looked[i].id >= 0
           /\ Len(results) = Len(foundIds)
           /\ \A i \in 1..Len(results) :
                 /\ results[i].id = foundIds[i].id
                 /\ \/ results[i].square \in 0..24 /\ results[i].status = "undefined"
                    \/ results[i].square = NoSquare /\ results[i].status \in {"refund", "unavailable"}
           /\ Len(results) <= walk.want
           /\ walk.status = "done" <=> stop

WalkEnded == walk.status \in {"done", "throw"}

NewestWinner(winners) == SortDesc(winners)[1].blockNumber

BlockNumbers(list) == {list[k].blockNumber : k \in 1..Len(list)}

\* C29: with a non-empty history the block that won the most recent round is
\* rated EXTREME whatever its participants and amount, and is in none of the
\* primary, neverWon and contrarian lists of the advice nor in the allocation
\* made from them.
C29_NewestWinnerExcluded ==
    an.status = "advanced" /\ Len(an.winners) > 0 =>
        /\ an.fn = "calculateRiskLevel" /\ an.blockNumber = NewestWinner(an.winners)
              => an.risk = "EXTREME"
        /\ an.fn = "displayAdvancedAnalysis" /\ IsOk(an.advice) =>
              /\ NewestWinner(an.winners) \notin
                    BlockNumbers(an.advice.value.primary)
                        \cup BlockNumbers(an.advice.value.neverWon)
                        \cup BlockNumbers(an.advice.value.contrarian)
              /\ NewestWinner(an.winners) \notin BlockNumbers(an.allocation.value)

\* Advice with every list filled, for board data in which the newest winner
\* is the block with the fewest participants.
C29_Witness ==
    /\ an.status = "advanced"
    /\ an.fn = "displayAdvancedAnalysis"
    /\ Len(an.winners) = 5
    /\ Len(an.blocks) = 25
    /\ ~an.blocks[NewestWinner(an.winners)].hole
    /\ an.blocks[NewestWinner(an.winners)].participants = Rat(10, 1)
    /\ IsOk(an.advice)
    /\ Len(an.advice.value.primary) = 3
    /\ Len(an.advice.value.neverWon) = 2
    /\ Len(an.advice.value.contrarian) = 2
    /\ Len(an.allocation.value) = 7
    /\ Gt0(an.totalBudget)

\* What the entries of one category receive together.
CategoryTotal(allocation, reason) ==
    LET Of(a) == a.reason = reason
        part == SelectSeq(allocation, Of)
    IN Sum([k \in 1..Len(part) |-> part[k].amount])

\* C30: a non-empty category receives its share of totalBudget (primary 60%,
\* never-won 25%, contrarian 15%) in equal parts, whichever of the other
\* categories are empty, and the amounts add up to at most totalBudget.
C30_FixedShares ==
    an.status = "advanced" /\ an.fn = "calculateOptimalAllocation" =>
        LET Share(reason) == CASE reason = "primary" -> Rat(6, 10)
                               [] reason = "neverWon" -> Rat(25, 100)
                               [] reason = "contrarian" -> Rat(15, 100)
            Of(reason) == CASE reason = "primary" -> an.recommendations.primary
                            [] reason = "neverWon" -> an.recommendations.neverWon
                            [] reason = "contrarian" -> an.recommendations.contrarian
        IN /\ \A reason \in {"primary", "neverWon", "contrarian"} :
                 Len(Of(reason)) > 0 =>
                    /\ CategoryTotal(an.allocation, reason) = Mul(an.totalBudget, Share(reason))
                    /\ \A k \in 1..Len(an.allocation) :
                          an.allocation[k].reason = reason =>
                             an.allocation[k].amount =
                                Div(Mul(an.totalBudget, Share(reason)), Rat(Len(Of(reason)), 1))
           /\ ~Lt(an.totalBudget, Sum([k \in 1..Len(an.allocation) |-> an.allocation[k].amount]))
====
